---- MODULE Spec2Model ----
(***************************************************************************)
(* A model of the KV store of kv_store/core: KVStore (store.py) and its    *)
(* TransactionLogger (transaction_logger.py).                              *)
(*                                                                         *)
(* Spec      one caller; every action is one whole call of a public method *)
(*           of KVStore, or the construction of a new KVStore on the same  *)
(*           files.                                                        *)
(***************************************************************************)
EXTENDS Naturals, Sequences, FiniteSets, TLC

\* ------------------------------------------------------------------ bounds

\* Calls that append a transaction are made while fewer than MaxOps
\* transactions were logged by the current logger and the log file holds
\* fewer than MaxOps records.
MaxOps == 2

\* ------------------------------------------------------------ python values

\* A key argument: its Python type and, for a str, its characters.
StrKey(chars) == [type |-> "str", chars |-> chars]

\* None passed as a key.
NoneKey == [type |-> "NoneType", chars |-> <<>>]

\* The keys the callers pass: "a" and "b", the invalid "" and "  ", and None.
ValidKeys == {StrKey(<<"a">>), StrKey(<<"b">>)}

BlankKeys == {StrKey(<<>>), StrKey(<<" ", " ">>)}

InvalidKeys == BlankKeys \cup {NoneKey}

\* The keys of the get, delete and exists calls.
KeyArgs == ValidKeys \cup {StrKey(<<" ", " ">>), NoneKey}

\* None passed as a value, and the result of dict.get on a missing key.
NoneVal == "None"

\* Python values: a str, a list, a tuple (JSON writes it as an array) and a
\* set (json cannot serialise it). The callers pass a str, a tuple or None.
PyStr == "str:x"

PyList == "list:[1,2]"

PyTuple == "tuple:(1,2)"

PySet == "set:{1}"

\* str(PySet), what _serialize_value makes of a value json cannot serialise.
PySetText == "str:{1}"

PutValues == {PyStr, PyTuple}

\* The arguments of the put calls: one valid key with every value, the other
\* with a str, a valid key with None, every invalid key with a str, and an
\* invalid key with None.
PutArgs ==
  ({StrKey(<<"a">>)} \X PutValues)
  \cup ({StrKey(<<"b">>)} \X {PyStr})
  \cup ({StrKey(<<"a">>)} \X {NoneVal})
  \cup (InvalidKeys \X {PyStr})
  \cup ({StrKey(<<" ", " ">>)} \X {NoneVal})

\* The empty dict.
EmptyMap == [k \in {} |-> NoneVal]

\* A d[k] = v that keeps the value of a key already present.
DictSetKeepsOld(d, k, v) ==
  [x \in (DOMAIN d) \cup {k} |-> IF x \in DOMAIN d THEN d[x] ELSE v]

\* A d[k] = v that drops every other key of the dict.
DictSetDropsOthers(d, k, v) == [x \in {k} |-> v]

\* d[k] = v on a dict.
DictSet(d, k, v) == [x \in (DOMAIN d) \cup {k} |-> IF x = k THEN v ELSE d[x]]

\* A d.pop(k) that leaves the key in the dict.
DictPopKeepsKey(d, k) == d

\* A d.pop(k) that empties the dict.
DictPopDropsAll(d, k) == [x \in {} |-> NoneVal]

\* d.pop(k): the dict without k.
DictPop(d, k) == [x \in (DOMAIN d) \ {k} |-> d[x]]

\* A d.clear() that leaves the dict as it is.
DictClearKeeps(d) == d

\* d.clear(): the dict emptied.
DictClear(d) == EmptyMap

\* d.get(k): None when k is missing.
DictGet(d, k) == IF k \in DOMAIN d THEN d[k] ELSE NoneVal

\* ------------------------------------------------------------------- json

\* Whether json.dumps accepts the value (a set raises TypeError).
JsonSerializable(v) == v # PySet

\* json.dumps of one value: the JSON text. A tuple is written like a list.
JsonDumpValue(v) ==
  CASE v = PyStr     -> "\"x\""
    [] v = PyList    -> "[1,2]"
    [] v = PyTuple   -> "[1,2]"
    [] v = PySetText -> "\"{1}\""
    [] v = NoneVal   -> "null"

\* json.loads of one JSON text: an array is read as a list.
JsonLoadValue(j) ==
  CASE j = "\"x\""   -> PyStr
    [] j = "[1,2]"   -> PyList
    [] j = "\"{1}\"" -> PySetText
    [] j = "null"    -> NoneVal

\* json.dump of the dict: the JSON object, property by property.
JsonDumpDict(d) == [k \in DOMAIN d |-> JsonDumpValue(d[k])]

\* json.load of a JSON object.
JsonLoadDict(o) == [k \in DOMAIN o |-> JsonLoadValue(o[k])]

\* Whether json.dump of the dict runs to its end.
DictSerializable(d) == \A k \in DOMAIN d : JsonSerializable(d[k])

\* --------------------------------------------------------------- the files

\* A file that does not exist.
NoFile == [kind |-> "absent", obj |-> EmptyMap]

\* A file opened with mode 'w' whose write did not run to its end: its text
\* is empty or a proper prefix of a JSON document, which json.load rejects.
PartialFile == [kind |-> "partial", obj |-> EmptyMap]

\* A data file holding the JSON object o.
JsonFile(o) == [kind |-> "json", obj |-> o]

\* What an I/O call of the data file does: it succeeds, open() raises, or
\* the write raises after open() truncated the file.
IoOutcomes == {"ok", "open_fail", "write_fail"}

\* A log file holding the JSON array recs.
JsonLog(recs) == [kind |-> "json", recs |-> recs]

\* A log file that does not exist.
NoLog == [kind |-> "absent", recs |-> <<>>]

\* A log file whose rewrite did not run to its end (see PartialFile).
PartialLog == [kind |-> "partial", recs |-> <<>>]

\* A log file holding JSON that is not an array.
OtherLog == [kind |-> "other", recs |-> <<>>]

\* ------------------------------------------------------------------- state

VARIABLES
  data,                 \* KVStore._data
  has_data_file,        \* KVStore._data_file is not None
  data_file,            \* the file at KVStore._data_file
  has_log_file,         \* TransactionLogger._log_file is not None
  log_file,             \* the file at TransactionLogger._log_file
  transaction_counter,  \* TransactionLogger._transaction_counter
  fault,                \* the I/O call of this run that failed, "none" so far
  last,                 \* the caller's most recent call and what it got back
  expected,             \* history: per key, the value its calls stored last
  th,                   \* per thread: where it is in its call, and its locals
  rw_readers,           \* KVStore._lock: the threads holding read_lock
  rw_writer,            \* KVStore._lock: the thread holding write_lock
  logger_lock,          \* TransactionLogger._lock: the thread holding it
  got,                  \* the caller's get_transactions call, if its most recent
  log_origin,           \* history: how the logger found or left its log file
  cli                   \* the CLI process around the store, if there is one

vars == <<data, has_data_file, data_file, has_log_file, log_file,
          transaction_counter, fault, last, expected,
          th, rw_readers, rw_writer, logger_lock, got, log_origin, cli>>

\* A call as its caller sees it: the method, its arguments, the exception
\* raised ("none": it returned) and the value returned.
Call(op, key, value, err, ret, n) ==
  [op |-> op, key |-> key, value |-> value, err |-> err, ret |-> ret, n |-> n]

\* -------------------------------------------------------------- validation

\* str.strip() on the characters of a key.
RECURSIVE LStrip(_)
LStrip(s) == IF s # <<>> /\ Head(s) = " " THEN LStrip(Tail(s)) ELSE s

RECURSIVE RStrip(_)
RStrip(s) ==
  IF s # <<>> /\ s[Len(s)] = " " THEN RStrip(SubSeq(s, 1, Len(s) - 1)) ELSE s

Strip(s) == RStrip(LStrip(s))

\* A _validate_key that tests `not key` instead of `not key.strip()`.
ValidateKeyNoStrip(key) ==
  IF key.type # "str" THEN "InvalidKeyError"
  ELSE IF key.chars = <<>> THEN "InvalidKeyError"
  ELSE "none"

\* KVStore._validate_key: the exception it raises, "none" when it returns.
ValidateKey(key) ==
  IF key.type # "str" THEN "InvalidKeyError"
  ELSE IF Strip(key.chars) = <<>> THEN "InvalidKeyError"
  ELSE "none"

\* KVStore._validate_value.
ValidateValue(value) == IF value = NoneVal THEN "InvalidValueError" ELSE "none"

\* ------------------------------------------------------------ persistence

\* A _save_data that returns without writing.
SaveDataSkipsWrite(d, io) == [file |-> data_file, err |-> "none"]

\* open(self._data_file, 'w') in _save_data: it truncates the file, or raises
\* an IOError that _save_data re-raises as TransactionError.
SaveOpen(io) ==
  IF io = "open_fail" THEN [file |-> data_file, err |-> "TransactionError"]
  ELSE [file |-> PartialFile, err |-> "none"]

\* A _save_data whose `except IOError` swallows the failure of the write.
SaveWriteSwallowsError(d, io) ==
  IF io = "write_fail" \/ ~DictSerializable(d) THEN [file |-> PartialFile, err |-> "none"]
  ELSE [file |-> JsonFile(JsonDumpDict(d)), err |-> "none"]

\* json.dump(self._data, f, ...) in _save_data, on the truncated file: an
\* IOError is re-raised as TransactionError, its TypeError is not caught.
SaveWrite(d, io) ==
  IF io = "write_fail" THEN [file |-> PartialFile, err |-> "TransactionError"]
  ELSE IF ~DictSerializable(d) THEN [file |-> PartialFile, err |-> "TypeError"]
  ELSE [file |-> JsonFile(JsonDumpDict(d)), err |-> "none"]

\* KVStore._save_data on the dict d: the file afterwards and the exception.
SaveData(d, io) ==
  IF ~has_data_file THEN [file |-> data_file, err |-> "none"]
  ELSE IF SaveOpen(io).err # "none" THEN SaveOpen(io)
  ELSE SaveWrite(d, io)

\* A _load_data that takes a file json.load rejects for an empty store.
LoadDataIgnoresCorrupt(configured, file) ==
  IF ~configured \/ file.kind # "json" THEN [data |-> EmptyMap, err |-> "none"]
  ELSE [data |-> JsonLoadDict(file.obj), err |-> "none"]

\* A construction that never reads the data file.
LoadDataSkipsFile(configured, file) == [data |-> EmptyMap, err |-> "none"]

\* KVStore.__init__ with KVStore._load_data on a data file: the initial dict
\* and the exception of the construction.
LoadData(configured, file) ==
  IF ~configured \/ file.kind = "absent" THEN [data |-> EmptyMap, err |-> "none"]
  ELSE IF file.kind = "partial" THEN [data |-> EmptyMap, err |-> "TransactionError"]
  ELSE [data |-> JsonLoadDict(file.obj), err |-> "none"]

\* ------------------------------------------------------------------ logger

\* TransactionLogger._serialize_value.
SerializeValue(v) == IF JsonSerializable(v) THEN v ELSE PySetText

\* The dict log_transaction builds, None entries removed, as json.dump
\* writes it. "metadata" is `metadata or {}`, which is never None.
Transaction(id, operation, key, value, old_value) ==
  LET full == [transaction_id |-> id,
               operation |-> operation,
               timestamp |-> "isoformat",
               key |-> key,
               value |-> JsonDumpValue(SerializeValue(value)),
               old_value |-> JsonDumpValue(SerializeValue(old_value)),
               metadata |-> "{}"]
      kept == {"transaction_id", "operation", "timestamp", "metadata"}
              \cup (IF key # NoneKey THEN {"key"} ELSE {})
              \cup (IF SerializeValue(value) # NoneVal THEN {"value"} ELSE {})
              \cup (IF SerializeValue(old_value) # NoneVal THEN {"old_value"} ELSE {})
  IN [f \in kept |-> full[f]]

\* A _write_to_file that gives up on a log file it cannot parse.
WriteToFileNeedsArray(transaction, lio) ==
  IF lio = "open_fail" \/ log_file.kind \in {"partial", "other"} THEN log_file
  ELSE IF lio = "write_fail" THEN PartialLog
  ELSE JsonLog(Append(log_file.recs, transaction))

\* A _write_to_file that writes the new transaction alone.
WriteToFileOverwrites(transaction, lio) ==
  IF lio = "open_fail" THEN log_file
  ELSE IF lio = "write_fail" THEN PartialLog
  ELSE JsonLog(<<transaction>>)

\* TransactionLogger._write_to_file: the log file afterwards. A file that
\* json.load rejects is read as []; an IOError is caught and reported.
WriteToFile(transaction, lio) ==
  LET transactions == IF log_file.kind = "json" THEN log_file.recs ELSE <<>>
  IN IF lio = "open_fail" THEN log_file
     ELSE IF lio = "write_fail" THEN PartialLog
     ELSE JsonLog(Append(transactions, transaction))

\* A log_transaction that counts only the records it managed to write.
LogTransactionCountsWritten(operation, key, value, old_value, lio) ==
  LET id == transaction_counter + 1
  IN [counter |-> IF has_log_file /\ lio = "ok" THEN id ELSE transaction_counter,
      file |-> IF has_log_file
               THEN WriteToFile(Transaction(id, operation, key, value, old_value), lio)
               ELSE log_file]

\* A log_transaction that leaves old_value out of the record.
LogTransactionDropsOldValue(operation, key, value, old_value, lio) ==
  LET id == transaction_counter + 1
  IN [counter |-> id,
      file |-> IF has_log_file
               THEN WriteToFile(Transaction(id, operation, key, value, NoneVal), lio)
               ELSE log_file]

\* TransactionLogger.log_transaction: the counter and the log file afterwards.
LogTransaction(operation, key, value, old_value, lio) ==
  LET id == transaction_counter + 1
  IN [counter |-> id,
      file |-> IF has_log_file
               THEN WriteToFile(Transaction(id, operation, key, value, old_value), lio)
               ELSE log_file]

\* A slice seq[start:] of a Python list, start negative or not.
PySliceFrom(seq, start) ==
  LET n == Len(seq)
      from == IF start < 0 THEN (IF n + start < 0 THEN 0 ELSE n + start)
              ELSE (IF start > n THEN n ELSE start)
  IN SubSeq(seq, from + 1, n)

\* transaction.get(field): None when the record has no such entry.
RecordGet(transaction, field, none) ==
  IF field \in DOMAIN transaction THEN transaction[field] ELSE none

\* `if operation`, `if key`, `if limit`: None, "" and 0 are false. A limit
\* is <<>> for None and <<n>> for the integer n.
OperationTruthy(operation) == operation \notin {NoneVal, ""}

KeyTruthy(key) == key # NoneKey /\ key.chars # <<>>

LimitTruthy(limit) == limit # <<>> /\ limit[1] # 0

\* The filter loop of get_transactions.
RECURSIVE FilterTransactions(_, _, _)
FilterTransactions(transactions, operation, key) ==
  IF transactions = <<>> THEN <<>>
  ELSE LET transaction == Head(transactions)
           rest == FilterTransactions(Tail(transactions), operation, key)
       IN IF OperationTruthy(operation)
             /\ RecordGet(transaction, "operation", NoneVal) # operation
          THEN rest
          ELSE IF KeyTruthy(key) /\ RecordGet(transaction, "key", NoneKey) # key
          THEN rest
          ELSE <<transaction>> \o rest

\* A get_transactions that filters by operation and forgets the key.
GetTransactionsIgnoresKey(operation, key, limit) ==
  IF ~has_log_file \/ log_file.kind # "json" THEN <<>>
  ELSE LET filtered_transactions == FilterTransactions(log_file.recs, operation, NoneKey)
       IN IF LimitTruthy(limit)
          THEN PySliceFrom(filtered_transactions, 0 - limit[1])
          ELSE filtered_transactions

\* TransactionLogger.get_transactions: the list returned. No log file
\* configured, none at the path, a file json.load rejects or one that holds
\* no list: [].
GetTransactions(operation, key, limit) ==
  IF ~has_log_file \/ log_file.kind # "json" THEN <<>>
  ELSE LET filtered_transactions == FilterTransactions(log_file.recs, operation, key)
       IN IF LimitTruthy(limit)
          THEN PySliceFrom(filtered_transactions, 0 - limit[1])
          ELSE filtered_transactions

\* A clear_log that starts the ids over.
ClearLogResetsCounter ==
  [counter |-> 0,
   file |-> IF has_log_file /\ log_file.kind # "absent" THEN JsonLog(<<>>) ELSE log_file]

\* TransactionLogger.clear_log: the counter and the log file afterwards.
ClearLog ==
  [counter |-> transaction_counter,
   file |-> IF has_log_file /\ log_file.kind # "absent" THEN JsonLog(<<>>) ELSE log_file]

\* The caller's most recent call of the logger: a get_transactions call
\* with its arguments and the list returned, no call, or another method.
Got(operation, key, limit, res) ==
  [called |-> "get_transactions", operation |-> operation, key |-> key,
   limit |-> limit, res |-> res]

NoGot == [called |-> "none", operation |-> NoneVal, key |-> NoneKey, limit |-> <<>>, res |-> <<>>]

LoggerCalled(method) == [NoGot EXCEPT !.called = method]

\* The calls that log are made while the log is short (see MaxOps).
CanLog == transaction_counter < MaxOps /\ Len(log_file.recs) < MaxOps

\* ------------------------------------------------------- the store's methods

\* What a call leaves behind: the dict, the two files, the counter, and the
\* call as its caller sees it.
Outcome(d, df, lg, call) ==
  [data |-> d, data_file |-> df, log_file |-> lg.file, counter |-> lg.counter,
   call |-> call]

\* The logger as it is when a call does not reach log_transaction.
NotLogged == [counter |-> transaction_counter, file |-> log_file]

\* A call that raises before it touches anything.
Rejected(op, key, value, err) ==
  Outcome(data, data_file, NotLogged, Call(op, key, value, err, NoneVal, 0))

\* A put that calls log_transaction whether or not _save_data raised.
PutOutcomeLogsFailedSave(key, value, io, lio) ==
  IF ValidateKey(key) # "none" THEN Rejected("put", key, value, ValidateKey(key))
  ELSE IF ValidateValue(value) # "none"
  THEN Rejected("put", key, value, ValidateValue(value))
  ELSE LET old_value == DictGet(data, key)
           d == DictSet(data, key, value)
           saved == SaveData(d, io)
       IN Outcome(d, saved.file,
                  LogTransaction("PUT", key, value, old_value, lio),
                  Call("put", key, value, saved.err, NoneVal, 0))

\* KVStore.put.
PutOutcome(key, value, io, lio) ==
  IF ValidateKey(key) # "none" THEN Rejected("put", key, value, ValidateKey(key))
  ELSE IF ValidateValue(value) # "none"
  THEN Rejected("put", key, value, ValidateValue(value))
  ELSE LET old_value == DictGet(data, key)
           d == DictSet(data, key, value)
           saved == SaveData(d, io)
       IN IF saved.err # "none"
          THEN Outcome(d, saved.file, NotLogged,
                       Call("put", key, value, saved.err, NoneVal, 0))
          ELSE Outcome(d, saved.file,
                       LogTransaction("PUT", key, value, old_value, lio),
                       Call("put", key, value, "none", NoneVal, 0))

\* A get that records the attempt before it looks the key up.
GetOutcomeLogsAttempt(key, lio) ==
  IF ValidateKey(key) # "none" THEN Rejected("get", key, NoneVal, ValidateKey(key))
  ELSE IF key \notin DOMAIN data
  THEN Outcome(data, data_file,
               LogTransaction("GET", key, NoneVal, NoneVal, lio),
               Call("get", key, NoneVal, "KeyNotFoundError", NoneVal, 0))
  ELSE LET value == data[key]
       IN Outcome(data, data_file,
                  LogTransaction("GET", key, value, NoneVal, lio),
                  Call("get", key, NoneVal, "none", value, 0))

\* A get that lets the IOError of the log file's rewrite reach its caller.
GetOutcomeRaisesLogError(key, lio) ==
  IF ValidateKey(key) # "none" THEN Rejected("get", key, NoneVal, ValidateKey(key))
  ELSE IF key \notin DOMAIN data
  THEN Rejected("get", key, NoneVal, "KeyNotFoundError")
  ELSE LET value == data[key]
       IN Outcome(data, data_file,
                  LogTransaction("GET", key, value, NoneVal, lio),
                  Call("get", key, NoneVal,
                       IF has_log_file /\ lio # "ok" THEN "IOError" ELSE "none",
                       IF has_log_file /\ lio # "ok" THEN NoneVal ELSE value, 0))

\* KVStore.get.
GetOutcome(key, lio) ==
  IF ValidateKey(key) # "none" THEN Rejected("get", key, NoneVal, ValidateKey(key))
  ELSE IF key \notin DOMAIN data
  THEN Rejected("get", key, NoneVal, "KeyNotFoundError")
  ELSE LET value == data[key]
       IN Outcome(data, data_file,
                  LogTransaction("GET", key, value, NoneVal, lio),
                  Call("get", key, NoneVal, "none", value, 0))

\* KVStore.delete.
DeleteOutcome(key, io, lio) ==
  IF ValidateKey(key) # "none"
  THEN Rejected("delete", key, NoneVal, ValidateKey(key))
  ELSE IF key \notin DOMAIN data
  THEN Rejected("delete", key, NoneVal, "KeyNotFoundError")
  ELSE LET old_value == data[key]
           d == DictPop(data, key)
           saved == SaveData(d, io)
       IN IF saved.err # "none"
          THEN Outcome(d, saved.file, NotLogged,
                       Call("delete", key, NoneVal, saved.err, NoneVal, 0))
          ELSE Outcome(d, saved.file,
                       LogTransaction("DELETE", key, NoneVal, old_value, lio),
                       Call("delete", key, NoneVal, "none", old_value, 0))

\* KVStore.clear.
ClearOutcome(io, lio) ==
  LET d == DictClear(data)
      saved == SaveData(d, io)
  IN IF saved.err # "none"
     THEN Outcome(d, saved.file, NotLogged,
                  Call("clear", NoneKey, NoneVal, saved.err, NoneVal, 0))
     ELSE Outcome(d, saved.file,
                  LogTransaction("CLEAR", NoneKey, NoneVal, NoneVal, lio),
                  Call("clear", NoneKey, NoneVal, "none", NoneVal, 0))

\* KVStore.size.
SizeOutcome ==
  Outcome(data, data_file, NotLogged,
          Call("size", NoneKey, NoneVal, "none", NoneVal, Cardinality(DOMAIN data)))

\* KVStore.exists.
ExistsOutcome(key) ==
  IF ValidateKey(key) # "none"
  THEN Rejected("exists", key, NoneVal, ValidateKey(key))
  ELSE Outcome(data, data_file, NotLogged,
               Call("exists", key, NoneVal, "none",
                    IF key \in DOMAIN data THEN "True" ELSE "False", 0))

\* KVStore.__init__ of a new store on the same paths, which replaces the
\* store the caller held; when it raises, the caller keeps the old store.
\* TransactionLogger.__init__ starts a counter at 0 and creates a missing
\* log file as [].
InitOutcome ==
  LET loaded == LoadData(has_data_file, data_file)
      lg == IF has_log_file /\ log_file.kind = "absent" THEN JsonLog(<<>>)
            ELSE log_file
  IN IF loaded.err # "none"
     THEN Outcome(data, data_file, [counter |-> transaction_counter, file |-> lg],
                  Call("init", NoneKey, NoneVal, loaded.err, NoneVal, 0))
     ELSE Outcome(loaded.data, data_file, [counter |-> 0, file |-> lg],
                  Call("init", NoneKey, NoneVal, "none", NoneVal, 0))

\* ----------------------------------------------------------------- actions

\* The history of the caller's calls: a put that passed validation stored its
\* value under its key, a delete that found its key and a clear removed what
\* was stored, and a new store starts from what it loaded.
ExpectedAfter(r) ==
  LET c == r.call
      reached == c.err \notin {"InvalidKeyError", "InvalidValueError", "KeyNotFoundError"}
  IN CASE c.op = "put" /\ reached ->
            [k \in (DOMAIN expected) \cup {c.key} |->
               IF k = c.key THEN c.value ELSE expected[k]]
       [] c.op = "delete" /\ reached ->
            [k \in (DOMAIN expected) \ {c.key} |-> expected[k]]
       [] c.op = "clear" -> EmptyMap
       [] c.op = "init" /\ c.err = "none" -> r.data
       [] OTHER -> expected

\* The I/O call that failed when the outcomes of a call's I/O calls are p.
FaultOf(p) ==
  CASE p[1] = "open_fail"  -> "data_open"
    [] p[1] = "write_fail" -> "data_write"
    [] p[2] = "open_fail"  -> "log_open"
    [] p[2] = "write_fail" -> "log_write"
    [] OTHER -> "none"

\* The state after a call with outcome r under the I/O outcomes p, of which
\* `clean` is the outcome had no I/O call failed.
Returns(r, clean, p) ==
  /\ expected' = ExpectedAfter(r)
  /\ data' = r.data
  /\ data_file' = r.data_file
  /\ log_file' = r.log_file
  /\ transaction_counter' = r.counter
  /\ last' = r.call
  /\ fault' = IF r = clean THEN fault ELSE FaultOf(p)
  /\ got' = NoGot
  /\ log_origin' = IF r.call.op = "init" /\ r.call.err = "none"
                   THEN (IF r.log_file \in {JsonLog(<<>>), NoLog} THEN "fresh" ELSE "old")
                   ELSE log_origin
  /\ UNCHANGED <<has_data_file, has_log_file, th, rw_readers, rw_writer, logger_lock>>

\* The outcomes of the I/O calls of one method call, <<data file, log file>>:
\* at most one I/O call fails in a run.
IoPairs ==
  {p \in IoOutcomes \X IoOutcomes :
     \/ p = <<"ok", "ok">>
     \/ /\ fault = "none"
        /\ \/ has_data_file /\ p[1] # "ok" /\ p[2] = "ok"
           \/ has_log_file /\ p[1] = "ok" /\ p[2] # "ok"}

\* The threads that call the store.
Threads == {"t1", "t2"}

\* No thread holds the lock.
NoThread == "none"

\* A thread: its place in the call (pc), the method and its arguments, the
\* value it read from the dict (val), and what the call raised or returned
\* (ret; n for size; seen for what came out of an iterator).
Thread(pc, op, key, value, val, err, ret, n, seen) ==
  [pc |-> pc, op |-> op, key |-> key, value |-> value, val |-> val,
   err |-> err, ret |-> ret, n |-> n, seen |-> seen]

\* No CLI process: the store is called as a library.
NoCli == [mode |-> "none", state |-> "none", status |-> 0, printed |-> "none"]

\* A thread that has called nothing yet.
Idle == Thread("idle", "none", NoneKey, NoneVal, NoneVal, "none", NoneVal, 0, EmptyMap)

Init ==
  /\ th = [t \in Threads |-> Idle]
  /\ rw_readers = {}
  /\ rw_writer = NoThread
  /\ logger_lock = NoThread
  /\ has_data_file \in BOOLEAN
  /\ has_log_file \in BOOLEAN
  /\ data_file = NoFile
  /\ data = LoadData(has_data_file, data_file).data
  /\ log_file = IF has_log_file THEN JsonLog(<<>>) ELSE NoLog
  /\ transaction_counter = 0
  /\ fault = "none"
  /\ last = Call("init", NoneKey, NoneVal, "none", NoneVal, 0)
  /\ expected = data
  /\ got = NoGot
  /\ log_origin = "fresh"
  /\ cli = NoCli

Put ==
  \E a \in PutArgs, p \in IoPairs :
    /\ CanLog
    /\ Returns(PutOutcome(a[1], a[2], p[1], p[2]), PutOutcome(a[1], a[2], "ok", "ok"), p)
    /\ UNCHANGED cli

Get ==
  \E key \in KeyArgs, p \in IoPairs :
    /\ CanLog
    /\ Returns(GetOutcome(key, p[2]), GetOutcome(key, "ok"), p)
    /\ UNCHANGED cli

Delete ==
  \E key \in KeyArgs, p \in IoPairs :
    /\ CanLog
    /\ Returns(DeleteOutcome(key, p[1], p[2]), DeleteOutcome(key, "ok", "ok"), p)
    /\ UNCHANGED cli

Clear ==
  \E p \in IoPairs :
    /\ CanLog
    /\ Returns(ClearOutcome(p[1], p[2]), ClearOutcome("ok", "ok"), p)
    /\ UNCHANGED cli

NoIoFails == <<"ok", "ok">>

Size == Returns(SizeOutcome, SizeOutcome, NoIoFails) /\ UNCHANGED cli

Exists ==
  \E key \in KeyArgs :
    Returns(ExistsOutcome(key), ExistsOutcome(key), NoIoFails) /\ UNCHANGED cli

Reopen == Returns(InitOutcome, InitOutcome, NoIoFails) /\ UNCHANGED cli

Next == Put \/ Get \/ Delete \/ Clear \/ Size \/ Exists \/ Reopen

Spec == Init /\ [][Next]_vars

\* ------------------------------- data files the store did not write (SpecLoad)

\* The data files a store can find at its path, written or removed by
\* something else than this store: JSON objects (one that a store could have
\* written, one with a null value, one with a blank key), a file json.load
\* rejects, and no file.
ExistingFiles ==
  {JsonFile([k \in {StrKey(<<"a">>)} |-> "\"x\""]),
   JsonFile([k \in {StrKey(<<"a">>)} |-> "null"]),
   JsonFile([k \in {StrKey(<<" ", " ">>)} |-> "\"x\""]),
   PartialFile,
   NoFile}

\* Something else than the store leaves a file at the data file's path, once
\* in a run; the next construction on that path finds it.
ForeignWrite ==
  \E f \in ExistingFiles :
    /\ has_data_file
    /\ fault = "none"
    /\ data_file' = f
    /\ fault' = "foreign"
    /\ UNCHANGED <<cli, data, has_data_file, has_log_file, log_file, transaction_counter,
                   last, expected, th, rw_readers, rw_writer, logger_lock,
                   got, log_origin>>

\* Stores with a data file and no log file.
InitLoad == Init /\ has_data_file /\ ~has_log_file

NextLoad == Next \/ ForeignWrite

SpecLoad == InitLoad /\ [][NextLoad]_vars

\* ------------------------------------------- the logger's methods (SpecLog)

\* The largest limit passed to get_transactions.
MaxLimit == 2

\* The arguments of get_transactions: the filters with no limit, and the
\* limits with no filter and with one.
Operations == {NoneVal, "", "PUT", "GET"}

QueryKeys == {NoneKey, StrKey(<<>>), StrKey(<<"a">>)}

Limits == {<<>>} \cup {<<n>> : n \in 0..MaxLimit}

QueryArgs ==
  (Operations \X QueryKeys \X {<<>>})
  \cup ({NoneVal, "PUT"} \X {NoneKey} \X Limits)

\* The log_transaction calls made on the logger: <<operation, key, value,
\* old_value>>, as the store makes them.
LogCalls ==
  {<<"PUT", StrKey(<<"a">>), PyStr, NoneVal>>,
   <<"PUT", StrKey(<<"b">>), PyStr, PyStr>>,
   <<"GET", StrKey(<<"a">>), PyStr, NoneVal>>,
   <<"CLEAR", NoneKey, NoneVal, NoneVal>>}

\* The caller calls log_transaction; at most one I/O call fails in a run.
LogTransactionCall ==
  \E c \in LogCalls, lio \in IoOutcomes :
    /\ CanLog
    /\ lio = "ok" \/ fault = "none"
    /\ log_file' = LogTransaction(c[1], c[2], c[3], c[4], lio).file
    /\ transaction_counter' = LogTransaction(c[1], c[2], c[3], c[4], lio).counter
    /\ fault' = IF lio = "ok" THEN fault ELSE FaultOf(<<"ok", lio>>)
    /\ got' = LoggerCalled("log_transaction")
    /\ UNCHANGED <<cli, data, has_data_file, data_file, has_log_file, last, expected,
                   th, rw_readers, rw_writer, logger_lock, log_origin>>

\* TransactionLogger.__init__: the counter and the log file of a new logger.
LoggerInit ==
  [counter |-> 0,
   file |-> IF has_log_file /\ log_file.kind = "absent" THEN JsonLog(<<>>) ELSE log_file]

\* A new logger is constructed on the same log file.
NewLogger ==
  /\ log_file' = LoggerInit.file
  /\ transaction_counter' = LoggerInit.counter
  /\ log_origin' = IF LoggerInit.file = JsonLog(<<>>) THEN "fresh" ELSE "old"
  /\ got' = LoggerCalled("init")
  /\ UNCHANGED <<cli, data, has_data_file, data_file, has_log_file, fault, last, expected,
                 th, rw_readers, rw_writer, logger_lock>>

\* The caller reads the log with get_transactions.
GetTransactionsCall ==
  \E q \in QueryArgs :
    /\ got' = Got(q[1], q[2], q[3], GetTransactions(q[1], q[2], q[3]))
    /\ UNCHANGED <<cli, data, has_data_file, data_file, has_log_file, log_file,
                   transaction_counter, fault, last, expected,
                   th, rw_readers, rw_writer, logger_lock, log_origin>>

\* The caller calls clear_log.
ClearLogCall ==
  /\ log_file' = ClearLog.file
  /\ transaction_counter' = ClearLog.counter
  /\ log_origin' = "cleared"
  /\ got' = LoggerCalled("clear_log")
  /\ UNCHANGED <<cli, data, has_data_file, data_file, has_log_file, fault, last, expected,
                 th, rw_readers, rw_writer, logger_lock>>

\* Something else than the logger removes the log file or leaves at its path
\* a truncated file or JSON that is not an array, once in a run.
ForeignLog ==
  \E f \in {NoLog, PartialLog, OtherLog} :
    /\ has_log_file
    /\ fault = "none"
    /\ log_file' = f
    /\ fault' = "foreign"
    /\ log_origin' = "foreign"
    /\ got' = NoGot
    /\ UNCHANGED <<cli, data, has_data_file, data_file, has_log_file, transaction_counter,
                   last, expected, th, rw_readers, rw_writer, logger_lock>>

\* The logger of a store with a log file, called on its own.
InitLog == Init /\ has_log_file /\ ~has_data_file

NextLog ==
  LogTransactionCall \/ NewLogger \/ GetTransactionsCall \/ ClearLogCall \/ ForeignLog

SpecLog == InitLog /\ [][NextLog]_vars

\* The same calls on a logger constructed with a log file or without one
\* (TransactionLogger(), log_file None).
InitLogger == Init /\ ~has_data_file

SpecLogger == InitLogger /\ [][NextLog]_vars

\* --------------------------------------------- the threads' steps (SpecConc)

\* Whether a thread is inside a call.
InCall(t) == th[t].pc \notin {"idle", "done"}

\* A thread starts a call while the calls in progress can still log (MaxOps).
CanCall(t) ==
  LET calls == Cardinality({u \in Threads : InCall(u)})
  IN /\ ~InCall(t)
     /\ transaction_counter + calls < MaxOps
     /\ Len(log_file.recs) + calls < MaxOps

\* The methods that take write_lock and those that take read_lock.
WriteOps == {"put", "delete", "clear"}

\* keys(), values() and items() all return iter(...) of the live dict.
IterOps == {"items", "keys"}

ReadOps == {"get", "exists", "size"} \cup IterOps

\* The calls the threads make, <<method, key, value>>.
Calls ==
  ({"put"} \X ValidKeys \X {PyStr})
  \cup ({"get", "delete", "exists"} \X {StrKey(<<"a">>)} \X {NoneVal})
  \cup ({"clear", "size", "items"} \X {NoneKey} \X {NoneVal})
  \cup {<<"get", StrKey(<<" ">>), NoneVal>>, <<"put", StrKey(<<"a">>), NoneVal>>,
        <<"put", StrKey(<<"a">>), PyTuple>>}

\* threading.RwLock: read_lock is granted while no thread holds write_lock,
\* write_lock while no thread holds either.
CanAcquireRead == rw_writer = NoThread

CanAcquireWrite == rw_writer = NoThread /\ rw_readers = {}

\* Leaving the `with self._lock...` block, by return or by exception.
ReleaseLock(t) ==
  /\ rw_readers' = rw_readers \ {t}
  /\ rw_writer' = IF rw_writer = t THEN NoThread ELSE rw_writer

\* The thread's call ends: it raises err or returns ret.
Ends(t, err, ret) == [th[t] EXCEPT !.pc = "done", !.err = err, !.ret = ret]

\* The validation that opens put, get, delete and exists, before any lock.
Validation(op, key, value) ==
  IF op \notin {"put", "get", "delete", "exists"} THEN "none"
  ELSE IF ValidateKey(key) # "none" THEN ValidateKey(key)
  ELSE IF op = "put" THEN ValidateValue(value)
  ELSE "none"

\* What no step of a call changes: the configuration, and the record of the
\* sequential calls.
Frame == UNCHANGED <<has_data_file, has_log_file, last, expected, got, log_origin, cli>>

\* A thread calls a method: the validation, then on to the lock.
Invoke(t) ==
  \E c \in Calls :
    /\ CanCall(t)
    /\ Frame
    /\ th' = [th EXCEPT ![t] =
                Thread(IF Validation(c[1], c[2], c[3]) = "none" THEN "lock" ELSE "done",
                       c[1], c[2], c[3], NoneVal,
                       Validation(c[1], c[2], c[3]), NoneVal, 0, EmptyMap)]
    /\ UNCHANGED <<data, data_file, log_file, transaction_counter, fault,
                   rw_readers, rw_writer, logger_lock>>

\* A put, delete or clear that enters `with self._lock.read_lock:`.
AcquireWriteTakesReadLock(t) ==
  /\ Frame
  /\ th[t].pc = "lock" /\ th[t].op \in WriteOps
  /\ CanAcquireRead
  /\ rw_readers' = rw_readers \cup {t}
  /\ th' = [th EXCEPT ![t].pc = "locked"]
  /\ UNCHANGED <<data, data_file, log_file, transaction_counter, fault,
                 rw_writer, logger_lock>>

\* `with self._lock.write_lock:` entered.
AcquireWrite(t) ==
  /\ Frame
  /\ th[t].pc = "lock" /\ th[t].op \in WriteOps
  /\ CanAcquireWrite
  /\ rw_writer' = t
  /\ th' = [th EXCEPT ![t].pc = "locked"]
  /\ UNCHANGED <<data, data_file, log_file, transaction_counter, fault,
                 rw_readers, logger_lock>>

\* `with self._lock.read_lock:` entered.
AcquireRead(t) ==
  /\ Frame
  /\ th[t].pc = "lock" /\ th[t].op \in ReadOps
  /\ CanAcquireRead
  /\ rw_readers' = rw_readers \cup {t}
  /\ th' = [th EXCEPT ![t].pc = "locked"]
  /\ UNCHANGED <<data, data_file, log_file, transaction_counter, fault,
                 rw_writer, logger_lock>>

\* put: old_value = self._data.get(key); self._data[key] = value.
PutBody(t) ==
  /\ Frame
  /\ th[t].pc = "locked" /\ th[t].op = "put"
  /\ data' = DictSet(data, th[t].key, th[t].value)
  /\ th' = [th EXCEPT ![t].pc = "save_open", ![t].val = DictGet(data, th[t].key)]
  /\ UNCHANGED <<data_file, log_file, transaction_counter, fault,
                 rw_readers, rw_writer, logger_lock>>

\* A delete without the `if key not in self._data` check: pop raises KeyError.
DeleteBodyPopsMissing(t) ==
  /\ Frame
  /\ th[t].pc = "locked" /\ th[t].op = "delete"
  /\ IF th[t].key \notin DOMAIN data
     THEN /\ th' = [th EXCEPT ![t] = Ends(t, "KeyError", NoneVal)]
          /\ ReleaseLock(t)
          /\ UNCHANGED data
     ELSE /\ data' = DictPop(data, th[t].key)
          /\ th' = [th EXCEPT ![t].pc = "save_open", ![t].val = data[th[t].key]]
          /\ UNCHANGED <<rw_readers, rw_writer>>
  /\ UNCHANGED <<data_file, log_file, transaction_counter, fault, logger_lock>>

\* A delete that raises KeyNotFoundError without leaving the lock.
DeleteBodyKeepsLock(t) ==
  /\ Frame
  /\ th[t].pc = "locked" /\ th[t].op = "delete"
  /\ IF th[t].key \notin DOMAIN data
     THEN /\ th' = [th EXCEPT ![t] = Ends(t, "KeyNotFoundError", NoneVal)]
          /\ UNCHANGED <<data, rw_readers, rw_writer>>
     ELSE /\ data' = DictPop(data, th[t].key)
          /\ th' = [th EXCEPT ![t].pc = "save_open", ![t].val = data[th[t].key]]
          /\ UNCHANGED <<rw_readers, rw_writer>>
  /\ UNCHANGED <<data_file, log_file, transaction_counter, fault, logger_lock>>

\* delete: raise KeyNotFoundError, or old_value = self._data.pop(key).
DeleteBody(t) ==
  /\ Frame
  /\ th[t].pc = "locked" /\ th[t].op = "delete"
  /\ IF th[t].key \notin DOMAIN data
     THEN /\ th' = [th EXCEPT ![t] = Ends(t, "KeyNotFoundError", NoneVal)]
          /\ ReleaseLock(t)
          /\ UNCHANGED data
     ELSE /\ data' = DictPop(data, th[t].key)
          /\ th' = [th EXCEPT ![t].pc = "save_open", ![t].val = data[th[t].key]]
          /\ UNCHANGED <<rw_readers, rw_writer>>
  /\ UNCHANGED <<data_file, log_file, transaction_counter, fault, logger_lock>>

\* clear: self._data.clear().
ClearBody(t) ==
  /\ Frame
  /\ th[t].pc = "locked" /\ th[t].op = "clear"
  /\ data' = DictClear(data)
  /\ th' = [th EXCEPT ![t].pc = "save_open"]
  /\ UNCHANGED <<data_file, log_file, transaction_counter, fault,
                 rw_readers, rw_writer, logger_lock>>

\* A put, delete or clear that goes on to log_transaction without _save_data.
SaveOpenStepSkipsSave(t) ==
  /\ Frame
  /\ th[t].pc = "save_open"
  /\ th' = [th EXCEPT ![t].pc = "log"]
  /\ UNCHANGED <<data, data_file, log_file, transaction_counter, fault,
                 rw_readers, rw_writer, logger_lock>>

\* _save_data: return at once without a data file, else open(..., 'w').
SaveOpenStep(t) ==
  /\ Frame
  /\ th[t].pc = "save_open"
  /\ IF ~has_data_file
     THEN /\ th' = [th EXCEPT ![t].pc = "log"]
          /\ UNCHANGED <<data_file, fault, rw_readers, rw_writer>>
     ELSE \E io \in {"ok", "open_fail"} :
            /\ io = "ok" \/ fault = "none"
            /\ data_file' = SaveOpen(io).file
            /\ fault' = IF io = "ok" THEN fault ELSE "data_open"
            /\ IF SaveOpen(io).err # "none"
               THEN /\ th' = [th EXCEPT ![t] = Ends(t, SaveOpen(io).err, NoneVal)]
                    /\ ReleaseLock(t)
               ELSE /\ th' = [th EXCEPT ![t].pc = "save_write"]
                    /\ UNCHANGED <<rw_readers, rw_writer>>
  /\ UNCHANGED <<data, log_file, transaction_counter, logger_lock>>

\* _save_data: json.dump into the truncated file.
SaveWriteStep(t) ==
  /\ Frame
  /\ th[t].pc = "save_write"
  /\ \E io \in {"ok", "write_fail"} :
       /\ io = "ok" \/ fault = "none"
       /\ data_file' = SaveWrite(data, io).file
       /\ fault' = IF io = "ok" THEN fault ELSE "data_write"
       /\ IF SaveWrite(data, io).err # "none"
          THEN /\ th' = [th EXCEPT ![t] = Ends(t, SaveWrite(data, io).err, NoneVal)]
               /\ ReleaseLock(t)
          ELSE /\ th' = [th EXCEPT ![t].pc = "log"]
               /\ UNCHANGED <<rw_readers, rw_writer>>
  /\ UNCHANGED <<data, log_file, transaction_counter, logger_lock>>

\* A get without the `if key not in self._data` check: the read raises KeyError.
GetBodyReadsMissing(t) ==
  /\ Frame
  /\ th[t].pc = "locked" /\ th[t].op = "get"
  /\ IF th[t].key \notin DOMAIN data
     THEN /\ th' = [th EXCEPT ![t] = Ends(t, "KeyError", NoneVal)]
          /\ ReleaseLock(t)
     ELSE /\ th' = [th EXCEPT ![t].pc = "log", ![t].val = data[th[t].key]]
          /\ UNCHANGED <<rw_readers, rw_writer>>
  /\ UNCHANGED <<data, data_file, log_file, transaction_counter, fault, logger_lock>>

\* get: raise KeyNotFoundError, or value = self._data[key].
GetBody(t) ==
  /\ Frame
  /\ th[t].pc = "locked" /\ th[t].op = "get"
  /\ IF th[t].key \notin DOMAIN data
     THEN /\ th' = [th EXCEPT ![t] = Ends(t, "KeyNotFoundError", NoneVal)]
          /\ ReleaseLock(t)
     ELSE /\ th' = [th EXCEPT ![t].pc = "log", ![t].val = data[th[t].key]]
          /\ UNCHANGED <<rw_readers, rw_writer>>
  /\ UNCHANGED <<data, data_file, log_file, transaction_counter, fault, logger_lock>>

\* An exists that stores the key it was asked about.
ExistsBodyStoresKey(t) ==
  /\ Frame
  /\ th[t].pc = "locked" /\ th[t].op = "exists"
  /\ th' = [th EXCEPT ![t] =
              Ends(t, "none", IF th[t].key \in DOMAIN data THEN "True" ELSE "False")]
  /\ data' = DictSet(data, th[t].key, NoneVal)
  /\ ReleaseLock(t)
  /\ UNCHANGED <<data_file, log_file, transaction_counter, fault, logger_lock>>

\* exists: return key in self._data.
ExistsBody(t) ==
  /\ Frame
  /\ th[t].pc = "locked" /\ th[t].op = "exists"
  /\ th' = [th EXCEPT ![t] =
              Ends(t, "none", IF th[t].key \in DOMAIN data THEN "True" ELSE "False")]
  /\ ReleaseLock(t)
  /\ UNCHANGED <<data, data_file, log_file, transaction_counter, fault, logger_lock>>

\* size: return len(self._data).
SizeBody(t) ==
  /\ Frame
  /\ th[t].pc = "locked" /\ th[t].op = "size"
  /\ th' = [th EXCEPT ![t] = [Ends(t, "none", NoneVal) EXCEPT !.n = Cardinality(DOMAIN data)]]
  /\ ReleaseLock(t)
  /\ UNCHANGED <<data, data_file, log_file, transaction_counter, fault, logger_lock>>

\* items: return iter(self._data.items()). The iterator notes the size of
\* the dict and leaves the `with` block with the caller.
ItemsBody(t) ==
  /\ Frame
  /\ th[t].pc = "locked" /\ th[t].op \in IterOps
  /\ th' = [th EXCEPT ![t].pc = "iter", ![t].n = Cardinality(DOMAIN data)]
  /\ ReleaseLock(t)
  /\ UNCHANGED <<data, data_file, log_file, transaction_counter, fault, logger_lock>>

\* The caller runs the iterator of items(): it reads the dict as it is now,
\* and raises RuntimeError when the dict changed size since iter().
ItemsConsume(t) ==
  /\ Frame
  /\ th[t].pc = "iter"
  /\ th' = [th EXCEPT ![t] =
              IF Cardinality(DOMAIN data) # th[t].n
              THEN Ends(t, "RuntimeError", NoneVal)
              ELSE [Ends(t, "none", NoneVal) EXCEPT !.seen = data]]
  /\ UNCHANGED <<data, data_file, log_file, transaction_counter, fault,
                 rw_readers, rw_writer, logger_lock>>

\* A log_transaction that enters its block without waiting for the lock.
LogAcquireNoLock(t) ==
  /\ Frame
  /\ th[t].pc = "log"
  /\ logger_lock' = t
  /\ th' = [th EXCEPT ![t].pc = "log_write"]
  /\ UNCHANGED <<data, data_file, log_file, transaction_counter, fault,
                 rw_readers, rw_writer>>

\* log_transaction: `with self._lock:` entered.
LogAcquire(t) ==
  /\ Frame
  /\ th[t].pc = "log"
  /\ logger_lock = NoThread
  /\ logger_lock' = t
  /\ th' = [th EXCEPT ![t].pc = "log_write"]
  /\ UNCHANGED <<data, data_file, log_file, transaction_counter, fault,
                 rw_readers, rw_writer>>

\* The arguments of the store's log_transaction call, by method.
LogArgs(r) ==
  CASE r.op = "put"    -> <<"PUT", r.key, r.value, r.val>>
    [] r.op = "get"    -> <<"GET", r.key, r.val, NoneVal>>
    [] r.op = "delete" -> <<"DELETE", r.key, NoneVal, r.val>>
    [] r.op = "clear"  -> <<"CLEAR", NoneKey, NoneVal, NoneVal>>

\* log_transaction under its lock: the counter, the record, the file.
LogWriteStep(t) ==
  /\ Frame
  /\ th[t].pc = "log_write"
  /\ \E lio \in IoOutcomes :
       LET a == LogArgs(th[t])
           lg == LogTransaction(a[1], a[2], a[3], a[4], lio)
       IN /\ lio = "ok" \/ (fault = "none" /\ has_log_file)
          /\ transaction_counter' = lg.counter
          /\ log_file' = lg.file
          /\ fault' = IF lio = "ok" THEN fault ELSE FaultOf(<<"ok", lio>>)
  /\ logger_lock' = NoThread
  /\ th' = [th EXCEPT ![t].pc = "unlock"]
  /\ UNCHANGED <<data, data_file, rw_readers, rw_writer>>

\* The `with self._lock...` block of put, get, delete or clear is left.
Unlock(t) ==
  /\ Frame
  /\ th[t].pc = "unlock"
  /\ th' = [th EXCEPT ![t] =
              Ends(t, "none", IF th[t].op \in {"get", "delete"} THEN th[t].val ELSE NoneVal)]
  /\ ReleaseLock(t)
  /\ UNCHANGED <<data, data_file, log_file, transaction_counter, fault, logger_lock>>

Step(t) ==
  \/ Invoke(t) \/ AcquireWrite(t) \/ AcquireRead(t)
  \/ PutBody(t) \/ DeleteBody(t) \/ ClearBody(t)
  \/ SaveOpenStep(t) \/ SaveWriteStep(t)
  \/ GetBody(t) \/ ExistsBody(t) \/ SizeBody(t)
  \/ ItemsBody(t) \/ ItemsConsume(t)
  \/ LogAcquire(t) \/ LogWriteStep(t) \/ Unlock(t)

NextConc == \E t \in Threads : Step(t)

SpecConc == Init /\ [][NextConc]_vars

\* ------------------------------------------------ one call per thread
\* The threaded tests: a store that loaded some keys, every thread making
\* one call, every file operation succeeding.

RaceDicts ==
  { EmptyMap,
    [k \in {StrKey(<<"a">>)} |-> PyStr],
    [k \in {StrKey(<<"a">>), StrKey(<<"b">>)} |-> PyStr] }

RaceCalls ==
  ({"put"} \X {StrKey(<<"a">>)} \X {PyTuple, PyList})
  \cup ({"put"} \X {StrKey(<<"b">>)} \X {PyStr})
  \cup ({"put"} \X {StrKey(<<" ">>)} \X {PyStr})
  \cup ({"put"} \X {StrKey(<<"a">>)} \X {NoneVal})
  \cup ({"get", "delete"} \X {StrKey(<<"a">>), StrKey(<<"b">>)} \X {NoneVal})
  \cup ({"keys", "size"} \X {NoneKey} \X {NoneVal})

\* A thread that has made no call yet makes its call.
RaceInvoke(t) ==
  \E c \in RaceCalls :
    /\ th[t].pc = "idle"
    /\ Frame
    /\ th' = [th EXCEPT ![t] =
                Thread(IF Validation(c[1], c[2], c[3]) = "none" THEN "lock" ELSE "done",
                       c[1], c[2], c[3], NoneVal,
                       Validation(c[1], c[2], c[3]), NoneVal, 0, EmptyMap)]
    /\ UNCHANGED <<data, data_file, log_file, transaction_counter, fault,
                   rw_readers, rw_writer, logger_lock>>

\* KVStore(data_file, log_file) on a data file that holds one of RaceDicts
\* and an empty log file; "never": no file operation of the run fails.
InitRace ==
  /\ has_data_file = TRUE
  /\ has_log_file = TRUE
  /\ \E d \in RaceDicts :
       /\ data_file = JsonFile(JsonDumpDict(d))
       /\ data = LoadData(TRUE, data_file).data
  /\ log_file = JsonLog(<<>>)
  /\ transaction_counter = 0
  /\ fault = "never"
  /\ last = Call("init", NoneKey, NoneVal, "none", NoneVal, 0)
  /\ expected = data
  /\ th = [t \in Threads |-> Idle]
  /\ rw_readers = {}
  /\ rw_writer = NoThread
  /\ logger_lock = NoThread
  /\ got = NoGot
  /\ log_origin = "fresh"
  /\ cli = NoCli

RaceStep(t) ==
  \/ RaceInvoke(t) \/ AcquireWrite(t) \/ AcquireRead(t)
  \/ PutBody(t) \/ DeleteBody(t)
  \/ SaveOpenStep(t) \/ SaveWriteStep(t)
  \/ GetBody(t) \/ SizeBody(t)
  \/ ItemsBody(t) \/ ItemsConsume(t)
  \/ LogAcquire(t) \/ LogWriteStep(t) \/ Unlock(t)

NextRace == \E t \in Threads : RaceStep(t)

SpecRace == InitRace /\ [][NextRace]_vars

\* ------------------------------------- threads calling the logger directly
\* One TransactionLogger on a log file, every thread calling
\* log_transaction("PUT", key, value) once; the steps of the call are those
\* of its body, so that the threads interleave inside it as far as the
\* lock lets them.

LogKeys == {StrKey(<<"a">>), StrKey(<<"b">>)}

\* The thread calls log_transaction.
LogCall(t) ==
  \E k \in LogKeys :
    /\ Frame
    /\ th[t].pc = "idle"
    /\ th' = [th EXCEPT ![t] =
                Thread("log", "log_transaction", k, PyStr, NoneVal,
                       "none", NoneVal, 0, EmptyMap)]
    /\ UNCHANGED <<data, data_file, log_file, transaction_counter, fault,
                   rw_readers, rw_writer, logger_lock>>

\* self._transaction_counter += 1; transaction_id = self._transaction_counter.
LogCount(t) ==
  /\ Frame
  /\ th[t].pc = "log_write" /\ th[t].op = "log_transaction"
  /\ transaction_counter' = transaction_counter + 1
  /\ th' = [th EXCEPT ![t].pc = "log_read", ![t].n = transaction_counter + 1]
  /\ UNCHANGED <<data, data_file, log_file, fault, rw_readers, rw_writer, logger_lock>>

\* What _write_to_file reads from the log file: its array, or [] for a file
\* that json.load rejects or that holds no array.
ReadTransactions == IF log_file.kind = "json" THEN log_file.recs ELSE <<>>

\* _write_to_file reads the log file; an IOError of the open ends the call,
\* reported and swallowed.
LogRead(t) ==
  /\ Frame
  /\ th[t].pc = "log_read"
  /\ \E lio \in {"ok", "open_fail"} :
       /\ lio = "ok" \/ fault = "none"
       /\ fault' = IF lio = "ok" THEN fault ELSE "log_open"
       /\ IF lio = "ok"
          THEN /\ th' = [th EXCEPT ![t].pc = "log_append", ![t].seen = ReadTransactions]
               /\ UNCHANGED logger_lock
          ELSE /\ th' = [th EXCEPT ![t] = Ends(t, "none", NoneVal)]
               /\ logger_lock' = NoThread
  /\ UNCHANGED <<data, data_file, log_file, transaction_counter, rw_readers, rw_writer>>

\* _write_to_file appends the record to what it read and rewrites the file;
\* the `with self._lock:` block is left.
LogAppend(t) ==
  /\ Frame
  /\ th[t].pc = "log_append"
  /\ \E lio \in {"ok", "write_fail"} :
       /\ lio = "ok" \/ fault = "none"
       /\ fault' = IF lio = "ok" THEN fault ELSE "log_write"
       /\ log_file' =
            IF lio = "ok"
            THEN JsonLog(Append(th[t].seen,
                                Transaction(th[t].n, "PUT", th[t].key, th[t].value, NoneVal)))
            ELSE PartialLog
  /\ logger_lock' = NoThread
  /\ th' = [th EXCEPT ![t] = Ends(t, "none", NoneVal)]
  /\ UNCHANGED <<data, data_file, transaction_counter, rw_readers, rw_writer>>

\* TransactionLogger(log_file) on a log file that holds [] or is empty.
InitLogRace ==
  /\ th = [t \in Threads |-> Idle]
  /\ rw_readers = {}
  /\ rw_writer = NoThread
  /\ logger_lock = NoThread
  /\ has_data_file = FALSE
  /\ has_log_file = TRUE
  /\ data_file = NoFile
  /\ data = EmptyMap
  /\ log_file \in {JsonLog(<<>>), OtherLog}
  /\ transaction_counter = 0
  /\ fault = "none"
  /\ last = Call("init", NoneKey, NoneVal, "none", NoneVal, 0)
  /\ expected = data
  /\ got = NoGot
  /\ log_origin = "fresh"
  /\ cli = NoCli

LogStep(t) ==
  LogCall(t) \/ LogAcquire(t) \/ LogCount(t) \/ LogRead(t) \/ LogAppend(t)

NextLogRace == \E t \in Threads : LogStep(t)

SpecLogRace == InitLogRace /\ [][NextLogRace]_vars

\* ------------------------------------------ clear_log beside log_transaction
\* Threads call log_transaction, again and again while the log is short, and
\* one of them calls clear_log.

\* The thread calls log_transaction, for the first time or once more.
AppendCall(t) ==
  \E k \in LogKeys :
    /\ Frame
    /\ CanCall(t) /\ th[t].op # "clear_log"
    /\ th' = [th EXCEPT ![t] =
                Thread("log", "log_transaction", k, PyStr, NoneVal,
                       "none", NoneVal, 0, EmptyMap)]
    /\ UNCHANGED <<data, data_file, log_file, transaction_counter, fault,
                   rw_readers, rw_writer, logger_lock>>

\* The thread calls clear_log: `if self._log_file and self._log_file.exists()`,
\* tested before the lock is taken.
ClearCall(t) ==
  /\ Frame
  /\ th[t].pc = "idle"
  /\ \A u \in Threads : th[u].op # "clear_log"
  /\ th' = [th EXCEPT ![t] =
              Thread(IF has_log_file /\ log_file.kind # "absent" THEN "clear_lock" ELSE "done",
                     "clear_log", NoneKey, NoneVal, NoneVal, "none", NoneVal, 0, EmptyMap)]
  /\ UNCHANGED <<data, data_file, log_file, transaction_counter, fault,
                 rw_readers, rw_writer, logger_lock>>

\* A clear_log that does not wait for the logger's lock.
ClearAcquireNoLock(t) ==
  /\ Frame
  /\ th[t].pc = "clear_lock"
  /\ logger_lock' = t
  /\ th' = [th EXCEPT ![t].pc = "clear_write"]
  /\ UNCHANGED <<data, data_file, log_file, transaction_counter, fault,
                 rw_readers, rw_writer>>

\* clear_log: `with self._lock:` entered.
ClearAcquire(t) ==
  /\ Frame
  /\ th[t].pc = "clear_lock"
  /\ logger_lock = NoThread
  /\ logger_lock' = t
  /\ th' = [th EXCEPT ![t].pc = "clear_write"]
  /\ UNCHANGED <<data, data_file, log_file, transaction_counter, fault,
                 rw_readers, rw_writer>>

\* clear_log under the lock: open(..., 'w') and json.dump([]). An IOError is
\* not caught; the `with self._lock:` block is left either way. The thread
\* notes in n the sequence counter at the moment the file is emptied.
ClearWrite(t) ==
  /\ th[t].pc = "clear_write"
  /\ \E lio \in IoOutcomes :
       /\ lio = "ok" \/ fault = "none"
       /\ fault' = IF lio = "ok" THEN fault ELSE FaultOf(<<"ok", lio>>)
       /\ log_file' = CASE lio = "ok" -> JsonLog(<<>>)
                        [] lio = "open_fail" -> log_file
                        [] lio = "write_fail" -> PartialLog
       /\ log_origin' = IF lio = "ok" THEN "cleared" ELSE log_origin
       /\ th' = [th EXCEPT ![t] =
                   [Ends(t, IF lio = "ok" THEN "none" ELSE "IOError", NoneVal)
                      EXCEPT !.n = transaction_counter]]
  /\ logger_lock' = NoThread
  /\ UNCHANGED <<has_data_file, has_log_file, last, expected, got, cli,
                 data, data_file, transaction_counter, rw_readers, rw_writer>>

ClearStep(t) ==
  \/ AppendCall(t) \/ LogAcquire(t) \/ LogCount(t) \/ LogRead(t) \/ LogAppend(t)
  \/ ClearCall(t) \/ ClearAcquire(t) \/ ClearWrite(t)

NextClearRace == \E t \in Threads : ClearStep(t)

SpecClearRace == InitLogRace /\ [][NextClearRace]_vars

\* ------------------------------------------- keyed calls with any key
\* Two threads call put, get, delete and exists with a valid key and with
\* keys that _validate_key rejects: "", "  " and None.

KeyedCalls ==
  ({"put"} \X ({StrKey(<<"a">>)} \cup InvalidKeys) \X {PyStr, NoneVal})
  \cup ({"get", "delete", "exists"} \X ({StrKey(<<"a">>)} \cup InvalidKeys) \X {NoneVal})

\* A thread calls a keyed method: the validation, then on to the lock.
KeyedInvoke(t) ==
  \E c \in KeyedCalls :
    /\ CanCall(t)
    /\ Frame
    /\ th' = [th EXCEPT ![t] =
                Thread(IF Validation(c[1], c[2], c[3]) = "none" THEN "lock" ELSE "done",
                       c[1], c[2], c[3], NoneVal,
                       Validation(c[1], c[2], c[3]), NoneVal, 0, EmptyMap)]
    /\ UNCHANGED <<data, data_file, log_file, transaction_counter, fault,
                   rw_readers, rw_writer, logger_lock>>

KeyedStep(t) ==
  \/ KeyedInvoke(t) \/ AcquireWrite(t) \/ AcquireRead(t)
  \/ PutBody(t) \/ DeleteBody(t) \/ GetBody(t) \/ ExistsBody(t)
  \/ SaveOpenStep(t) \/ SaveWriteStep(t)
  \/ LogAcquire(t) \/ LogWriteStep(t) \/ Unlock(t)

NextKeyed == \E t \in Threads : KeyedStep(t)

SpecKeyed == Init /\ [][NextKeyed]_vars

\* --------------------------------------------- threads that keep on calling
\* KVStore() without files, every thread calling again and again: gets and
\* deletes of a key that is never stored, which take their lock and raise
\* KeyNotFoundError, and, while the sequence counter is below MaxOps, puts.

FairCalls ==
  {<<"get", StrKey(<<"b">>), NoneVal>>,
   <<"delete", StrKey(<<"b">>), NoneVal>>,
   <<"put", StrKey(<<"a">>), PyStr>>}

\* A thread outside a call makes its next call.
FairInvoke(t) ==
  \E c \in FairCalls :
    /\ ~InCall(t)
    /\ c[1] = "put" => CanCall(t)
    /\ Frame
    /\ th' = [th EXCEPT ![t] =
                Thread("lock", c[1], c[2], c[3], NoneVal, "none", NoneVal, 0, EmptyMap)]
    /\ UNCHANGED <<data, data_file, log_file, transaction_counter, fault,
                   rw_readers, rw_writer, logger_lock>>

InitFair == Init /\ ~has_data_file /\ ~has_log_file

FairStep(t) ==
  \/ FairInvoke(t) \/ AcquireWrite(t) \/ AcquireRead(t)
  \/ PutBody(t) \/ DeleteBody(t) \/ GetBody(t)
  \/ SaveOpenStep(t) \/ LogAcquire(t) \/ LogWriteStep(t) \/ Unlock(t)

NextFair == \E t \in Threads : FairStep(t)

\* The scheduler runs every thread that stays able to take a step; a thread
\* waiting for a lock is able to while the lock can be granted to it.
SpecFair == InitFair /\ [][NextFair]_vars /\ \A t \in Threads : WF_vars(FairStep(t))

\* ------------------------------------------------------- the CLI process
\* kv_store.cli.main.main: a store on the default (or given) data and log
\* files, and either one command from the command line or the prompt loop.

\* The key arguments of a command: "a", and " " which only the command
\* line can pass (line.split() of the prompt yields no blank word).
CliKeys(mode) ==
  IF mode = "command" THEN {StrKey(<<"a">>), StrKey(<<" ">>)} ELSE {StrKey(<<"a">>)}

\* The value arguments of put, as typed.
CliTexts == {"x", "null", "[1,2]"}

\* PutCommand: json.loads(value), and the text itself when it is not JSON.
CliParseValue(text) ==
  CASE text = "null"  -> NoneVal
    [] text = "[1,2]" -> JsonLoadValue("[1,2]")
    [] OTHER          -> PyStr

\* The commands: <<name, key, value text>>.
CliCommands(mode) ==
  ({"put"} \X CliKeys(mode) \X CliTexts)
  \cup ({"get", "delete"} \X CliKeys(mode) \X {"x"})

\* The store call a command's execute makes.
CliOutcome(c, p) ==
  CASE c[1] = "put"    -> PutOutcome(c[2], CliParseValue(c[3]), p[1], p[2])
    [] c[1] = "get"    -> GetOutcome(c[2], p[2])
    [] c[1] = "delete" -> DeleteOutcome(c[2], p[1], p[2])

\* What execute prints: every KVStoreError is caught and reported by
\* _print_error, anything else by run_command.
CliPrinted(call) ==
  CASE call.err = "none" -> "success"
    [] call.err \in {"InvalidKeyError", "InvalidValueError",
                     "KeyNotFoundError", "TransactionError"} -> "error"
    [] OTHER -> "unexpected"

\* main with --command: run_command, then return.
CliRunCommand ==
  \E c \in CliCommands("command"), p \in IoPairs :
    /\ cli.mode = "command" /\ cli.state = "started"
    /\ Returns(CliOutcome(c, p), CliOutcome(c, <<"ok", "ok">>), p)
    /\ cli' = [cli EXCEPT !.state = "exited", !.status = 0,
                          !.printed = CliPrinted(CliOutcome(c, p).call)]

\* One line at the prompt: run_command, then the next prompt.
CliLine ==
  \E c \in CliCommands("interactive"), p \in IoPairs :
    /\ cli.mode = "interactive" /\ cli.state = "prompt"
    /\ CanLog
    /\ Returns(CliOutcome(c, p), CliOutcome(c, <<"ok", "ok">>), p)
    /\ cli' = [cli EXCEPT !.printed = CliPrinted(CliOutcome(c, p).call)]

\* "exit" at the prompt: the loop breaks and main returns.
CliExit ==
  /\ cli.mode = "interactive" /\ cli.state = "prompt"
  /\ cli' = [cli EXCEPT !.state = "exited", !.status = 0, !.printed = "none"]
  /\ UNCHANGED <<data, has_data_file, data_file, has_log_file, log_file,
                 transaction_counter, fault, last, expected,
                 th, rw_readers, rw_writer, logger_lock, got, log_origin>>

\* The data file of an earlier run of the CLI, if there was one.
CliFiles == {NoFile, JsonFile(JsonDumpDict([k \in {StrKey(<<"a">>)} |-> PyStr]))}

InitCli ==
  /\ th = [t \in Threads |-> Idle]
  /\ rw_readers = {}
  /\ rw_writer = NoThread
  /\ logger_lock = NoThread
  /\ has_data_file = TRUE
  /\ has_log_file = TRUE
  /\ data_file \in CliFiles
  /\ data = LoadData(has_data_file, data_file).data
  /\ log_file = JsonLog(<<>>)
  /\ transaction_counter = 0
  /\ fault = "none"
  /\ last = Call("init", NoneKey, NoneVal, "none", NoneVal, 0)
  /\ expected = data
  /\ got = NoGot
  /\ log_origin = "fresh"
  /\ \E mode \in {"command", "interactive"} :
       cli = [mode |-> mode,
              state |-> IF mode = "command" THEN "started" ELSE "prompt",
              status |-> 0, printed |-> "none"]

NextCli == CliRunCommand \/ CliLine \/ CliExit

SpecCli == InitCli /\ [][NextCli]_vars

\* ================================================================== claims

Mutators == {"put", "delete", "clear"}

\* The most recent record of the log file, when the call `last` appended it.
LastRecord == log_file.recs[Len(log_file.recs)]

LastLogged ==
  /\ has_log_file
  /\ log_file.kind = "json"
  /\ log_file.recs # <<>>
  /\ LastRecord.transaction_id = transaction_counter

\* C1: once put(k, v) has stored v, and until k is mutated again, get(k)
\* returns v, exists(k) is true and size() counts k exactly once: the store
\* answers for exactly the keys stored, each with the value stored last.
C1_PutThenGet ==
  /\ \A k \in DOMAIN expected :
       /\ \A lio \in IoOutcomes :
            /\ GetOutcome(k, lio).call.err = "none"
            /\ GetOutcome(k, lio).call.ret = expected[k]
       /\ ExistsOutcome(k).call.err = "none"
       /\ ExistsOutcome(k).call.ret = "True"
  /\ SizeOutcome.call.n = Cardinality(DOMAIN expected)
  /\ (last.op = "put" /\ last.err = "none") =>
       /\ last.key \in DOMAIN expected
       /\ expected[last.key] = last.value
  /\ (last.op = "get" /\ last.key \in DOMAIN expected) =>
       /\ last.err = "none"
       /\ last.ret = expected[last.key]
  /\ (last.op = "exists" /\ last.key \in DOMAIN expected) => last.ret = "True"
  /\ last.op = "size" => last.n = Cardinality(DOMAIN expected)

\* A successful put has replaced the value of a key that was present.
C1_Witness ==
  /\ last.op = "put" /\ last.err = "none"
  /\ LastLogged
  /\ LastRecord.operation = "PUT"
  /\ "old_value" \in DOMAIN LastRecord
  /\ Cardinality(DOMAIN data) = 1

\* C2: for a valid key never put, or deleted or cleared since, get(key)
\* raises KeyNotFoundError and exists(key) returns False.
C2_AbsentKeyNotFound ==
  /\ \A k \in ValidKeys \ DOMAIN expected :
       /\ \A lio \in IoOutcomes : GetOutcome(k, lio).call.err = "KeyNotFoundError"
       /\ ExistsOutcome(k).call.err = "none"
       /\ ExistsOutcome(k).call.ret = "False"
  /\ (last.op = "get" /\ last.key \in ValidKeys \ DOMAIN expected) =>
       last.err = "KeyNotFoundError"
  /\ (last.op = "exists" /\ last.key \in ValidKeys \ DOMAIN expected) =>
       last.err = "none" /\ last.ret = "False"

\* A get has raised KeyNotFoundError for a key whose delete is the most
\* recent record of the log.
C2_Witness ==
  /\ last.op = "get" /\ last.err = "KeyNotFoundError"
  /\ LastLogged
  /\ LastRecord.operation = "DELETE"
  /\ LastRecord.key = last.key

\* Whether the step's call ran into the one I/O failure of the run.
IoFailedNow == fault = "none" /\ fault' # "none"

\* C3: delete(key) of a present key returns the value stored last under it,
\* removes that key only (size falls by 1) and exists(key) is False after
\* it; delete(key) of an absent key raises KeyNotFoundError and leaves the
\* dict as it was. (A delete whose data-file write fails is C8's.)
C3_Delete ==
  [][\A key \in ValidKeys :
       (last'.op = "delete" /\ last'.key = key) =>
         IF key \in DOMAIN expected
         THEN /\ last'.err = "none" \/ (last'.err = "TransactionError" /\ IoFailedNow)
              /\ last'.err = "none" =>
                   /\ last'.ret = expected[key]
                   /\ DOMAIN data' = (DOMAIN data) \ {key}
                   /\ \A k \in DOMAIN data' : data'[k] = data[k]
                   /\ Cardinality(DOMAIN data') = Cardinality(DOMAIN data) - 1
                   /\ (ExistsOutcome(key).call.ret)' = "False"
         ELSE /\ last'.err = "KeyNotFoundError"
              /\ data' = data]_vars

\* A delete has returned and left the other key in the dict.
C3_Witness ==
  /\ last.op = "delete" /\ last.err = "none"
  /\ last.ret = PyTuple
  /\ DOMAIN data = {StrKey(<<"b">>)}

\* C4: after clear(), size() is 0 and get(k) raises KeyNotFoundError for
\* every key; clear() raises nothing in any state, an empty store included
\* (unless its data-file write fails, which is C8's).
C4_Clear ==
  last.op = "clear" =>
    /\ last.err = "none" \/ (last.err = "TransactionError" /\ fault \in {"data_open", "data_write"})
    /\ SizeOutcome.call.n = 0
    /\ \A k \in ValidKeys, lio \in IoOutcomes :
         GetOutcome(k, lio).call.err = "KeyNotFoundError"

\* A clear has emptied a store that held a key: the record before its own
\* is a PUT.
C4_Witness ==
  /\ last.op = "clear" /\ last.err = "none"
  /\ LastLogged
  /\ LastRecord.operation = "CLEAR"
  /\ Len(log_file.recs) >= 2
  /\ log_file.recs[Len(log_file.recs) - 1].operation = "PUT"

\* C5: a put with an empty, whitespace-only or non-text key raises
\* InvalidKeyError, a put of None raises InvalidValueError, and neither
\* changes the dict, the data file, the log file or the counter.
C5_InvalidPut ==
  [][last'.op = "put" =>
       /\ last'.key \in InvalidKeys =>
            /\ last'.err = "InvalidKeyError"
            /\ UNCHANGED <<data, data_file, log_file, transaction_counter>>
       /\ (last'.key \in ValidKeys /\ last'.value = NoneVal) =>
            /\ last'.err = "InvalidValueError"
            /\ UNCHANGED <<data, data_file, log_file, transaction_counter>>]_vars

\* A put with a whitespace-only key was rejected by a store that holds a
\* key, a data file and a log record.
C5_Witness ==
  /\ last.op = "put" /\ last.err = "InvalidKeyError"
  /\ last.key = StrKey(<<" ", " ">>)
  /\ data # EmptyMap
  /\ data_file.kind = "json"
  /\ LastLogged
\* C6: with a data file configured, right after a put, delete or clear has
\* returned, the data file is the JSON object of the dict: the same keys,
\* and for each key the JSON text of its value.
C6_FileReflectsData ==
  (has_data_file /\ last.op \in Mutators /\ last.err = "none") =>
    /\ data_file.kind = "json"
    /\ DOMAIN data_file.obj = DOMAIN data
    /\ \A k \in DOMAIN data : data_file.obj[k] = JsonDumpValue(data[k])

\* A put has returned after the one I/O failure of the run hit the data
\* file: the file is rewritten whole.
C6_Witness ==
  /\ has_data_file
  /\ last.op = "put" /\ last.err = "none"
  /\ fault = "data_write"
  /\ Cardinality(DOMAIN data) = 2

\* The dict a new store has after loading the file written from the dict d:
\* JSON has no tuple, so a tuple is read back as the list of its items.
ReadBack(d) == [k \in DOMAIN d |-> IF d[k] = PyTuple THEN PyList ELSE d[k]]

\* C7 as claimed: after a successful put, delete or clear, a new store on the
\* same data file holds the very key/value pairs of the first store's dict.
C7_RoundTripExact ==
  (has_data_file /\ last.op \in Mutators /\ last.err = "none") =>
    LoadData(has_data_file, data_file) = [data |-> data, err |-> "none"]

\* C7, amended: after a successful put, delete or clear, a new store on the
\* same data file is constructed without error and holds the same keys, each
\* with the same value, a tuple excepted, which it holds as a list; and the
\* construction of that store leaves it with exactly that dict.
C7_RoundTrip ==
  /\ [](has_data_file /\ last.op \in Mutators /\ last.err = "none" =>
          LoadData(has_data_file, data_file) = [data |-> ReadBack(data), err |-> "none"])
  /\ [][(has_data_file /\ last.op \in Mutators /\ last.err = "none"
         /\ last'.op = "init") =>
           /\ last'.err = "none"
           /\ data' = ReadBack(data)
           /\ Cardinality(DOMAIN data') = Cardinality(DOMAIN data)]_vars

\* A new store was constructed on a data file that holds a key.
C7_Witness ==
  /\ has_data_file
  /\ last.op = "init" /\ last.err = "none"
  /\ Cardinality(DOMAIN data) = 2
  /\ data_file.kind = "json"
  /\ \E k \in DOMAIN data : data[k] = PyList

\* The thread that takes the step.
Steps(t) == th'[t] # th[t]

\* The mutation of the call of thread t is in the dict d.
Mutated(t, d) ==
  CASE th[t].op = "put"    -> th[t].key \in DOMAIN d /\ d[th[t].key] = th[t].value
    [] th[t].op = "delete" -> th[t].key \notin DOMAIN d
    [] th[t].op = "clear"  -> d = EmptyMap

\* C8: when the open or the write of the data file fails with an I/O error
\* inside put, delete or clear, the call raises TransactionError, the dict
\* keeps the mutation, for the calls that follow to read, and the write lock
\* is free again.
C8_SaveFailure ==
  [][\A t \in Threads :
       (Steps(t) /\ th[t].pc \in {"save_open", "save_write"} /\ IoFailedNow) =>
         /\ th'[t].pc = "done"
         /\ th'[t].err = "TransactionError"
         /\ data' = data
         /\ Mutated(t, data')
         /\ rw_writer' = NoThread
         /\ CanAcquireWrite']_vars

\* A put raised TransactionError on the failed write of the data file, and
\* a later get of the other thread returned the value it had stored.
C8_Witness ==
  \E t \in Threads, u \in Threads :
    /\ th[t].pc = "done" /\ th[t].op = "put" /\ th[t].err = "TransactionError"
    /\ fault = "data_write"
    /\ data_file = PartialFile
    /\ th[u].pc = "done" /\ th[u].op = "get" /\ th[u].err = "none"
    /\ th[u].key = th[t].key /\ th[u].ret = th[t].value
    /\ rw_writer = NoThread

\* The data file holds the dict d; a file not yet written holds the empty
\* dict of a new store.
FileHolds(d) ==
  \/ data_file = JsonFile(JsonDumpDict(d))
  \/ data_file = NoFile /\ d = EmptyMap

\* C9 as claimed, in the runs where no I/O fails: with a data file
\* configured, whenever a call reads the dict (the body of get, exists and
\* size, the old value in put and delete, the iterator of items) the dict is
\* what the data file holds; and no two threads are inside _save_data at once.
C9_ObservesPersisted ==
  /\ [](Cardinality({t \in Threads : th[t].pc \in {"save_open", "save_write"}}) <= 1)
  /\ [][\A t \in Threads :
          (has_data_file /\ fault' = "none" /\ Steps(t)
           /\ th[t].pc \in {"locked", "iter"} /\ th[t].op # "clear") =>
            FileHolds(data)]_vars

C12_ValidState ==
  /\ \A k \in DOMAIN data : ValidateKey(k) = "none" /\ data[k] # NoneVal
  /\ (last.op = "get" /\ last.err = "none") => last.ret # NoneVal

\* The calls that reach log_transaction when they raise nothing, and the
\* operation each one logs.
LoggedCalls == {"put", "get", "delete", "clear"}

OperationOf(op) ==
  CASE op = "put" -> "PUT" [] op = "get" -> "GET"
    [] op = "delete" -> "DELETE" [] op = "clear" -> "CLEAR"

\* The I/O calls of the log file that can fail.
LogFaults == {"log_open", "log_write"}

\* What get_transactions() returns.
WholeLog == GetTransactions(NoneVal, NoneKey, <<>>)

\* The store's logger was constructed on a new or empty log file, and
\* nothing but the store's calls wrote the file since.
FreshLog == has_log_file /\ log_origin = "fresh" /\ log_origin' = "fresh"

\* A successful put, get, delete or clear adds one record at the end of what
\* get_transactions() returns, with the call's operation and key and the
\* next id; any other call of the store leaves it as it is.
LogGrowsByCall ==
  IF last'.op \in LoggedCalls /\ last'.err = "none"
  THEN /\ Len(WholeLog') = Len(WholeLog) + 1
       /\ SubSeq(WholeLog', 1, Len(WholeLog)) = WholeLog
       /\ LET record == WholeLog'[Len(WholeLog')]
          IN /\ record.operation = OperationOf(last'.op)
             /\ RecordGet(record, "key", NoneKey) = last'.key
             /\ record.transaction_id = Len(WholeLog')
  ELSE WholeLog' = WholeLog

C14_IdsIncrease ==
  log_file.kind = "json" =>
    \A i \in 1..Len(log_file.recs), j \in 1..Len(log_file.recs) :
      i < j => log_file.recs[i].transaction_id < log_file.recs[j].transaction_id

\* C15: clear_log leaves get_transactions() returning [] and the counter
\* as it was; a log_transaction that writes its record, after a clear_log
\* as after anything else, gives it the id one above the last id assigned and
\* leaves it last in the log; so the ids one logger assigns never go back.
C15_ClearKeepsCounter ==
  /\ [][got'.called = "clear_log" =>
          /\ WholeLog' = <<>>
          /\ transaction_counter' = transaction_counter]_vars
  /\ [][(got'.called = "log_transaction" /\ fault' = fault) =>
          /\ transaction_counter' = transaction_counter + 1
          /\ WholeLog' # <<>>
          /\ WholeLog'[Len(WholeLog')].transaction_id = transaction_counter + 1
          /\ got.called = "clear_log" => Len(WholeLog') = 1]_vars
  /\ [][got'.called # "init" => transaction_counter' >= transaction_counter]_vars

\* After a record with id 1 and a clear_log, the log holds one record, with
\* id 2.
C15_Witness ==
  /\ got.called = "log_transaction"
  /\ log_origin = "cleared"
  /\ transaction_counter = 2
  /\ fault = "none"
  /\ Len(WholeLog) = 1
  /\ WholeLog[1].transaction_id = 2

\* The records of a log that have the given operation and the given key,
\* in the order of the log. A filter is not given when it is None or "".
Matching(recs, operation, key) ==
  SelectSeq(recs, LAMBDA r :
    /\ operation \in {NoneVal, ""} \/ r.operation = operation
    /\ key \in {NoneKey, StrKey(<<>>)} \/ ("key" \in DOMAIN r /\ r.key = key))

\* The last min(L, n) of the n records of a list.
LastOf(recs, L) ==
  LET n == Len(recs)
      m == IF L < n THEN L ELSE n
  IN SubSeq(recs, n - m + 1, n)

C17_LimitLast ==
  (got.called = "get_transactions" /\ got.limit # <<>> /\ log_file.kind = "json") =>
    got.res = LastOf(Matching(log_file.recs, got.operation, got.key), got.limit[1])

C19_LogFailureSwallowed ==
  [][(fault = "none" /\ fault' \in LogFaults) =>
       /\ last'.op \in LoggedCalls
       /\ last'.err = "none"
       /\ data' = expected'
       /\ last'.op = "get" => (data' = data /\ last'.ret = expected[last'.key])
       /\ last'.op = "put" => data'[last'.key] = last'.value
       /\ last'.op = "delete" => last'.key \notin DOMAIN data'
       /\ last'.op = "clear" => data' = EmptyMap
       /\ (has_data_file /\ last'.op \in Mutators) =>
            data_file' = JsonFile(JsonDumpDict(data'))]_vars

\* A put returned although the rewrite of the log file failed: the dict and
\* the data file hold its value, the log file is left truncated.
C19_Witness ==
  /\ last.op = "put" /\ last.err = "none"
  /\ fault = "log_write"
  /\ log_file = PartialLog
  /\ has_data_file
  /\ data_file = JsonFile(JsonDumpDict(data))
  /\ last.key \in DOMAIN data /\ data[last.key] = last.value

\* The records the log file holds as _write_to_file reads it.
DiskLog == IF log_file.kind = "json" THEN log_file.recs ELSE <<>>

\* The log's rewrite fails in this step.
LogFailsNow == fault = "none" /\ fault' \in LogFaults

\* The entries a record has for key, value and old_value.
Carries(record) == DOMAIN record \cap {"key", "value", "old_value"}

\* The call that returned added one record to the log file, and the record
\* is the call's: PUT with the key, the new value, and the value replaced
\* exactly when the key was stored before; GET with the key and the value
\* returned; DELETE with the key and the value removed; CLEAR with none of
\* these.
RecordOfCall ==
  /\ log_file'.kind = "json"
  /\ Len(log_file'.recs) = Len(DiskLog) + 1
  /\ SubSeq(log_file'.recs, 1, Len(DiskLog)) = DiskLog
  /\ LET record == log_file'.recs[Len(log_file'.recs)]
         key == last'.key
     IN /\ record.operation = OperationOf(last'.op)
        /\ CASE last'.op = "put" ->
                  /\ Carries(record) = {"key", "value"}
                       \cup (IF key \in DOMAIN expected THEN {"old_value"} ELSE {})
                  /\ record.key = key
                  /\ record.value = JsonDumpValue(last'.value)
                  /\ key \in DOMAIN expected =>
                       record.old_value = JsonDumpValue(expected[key])
             [] last'.op = "get" ->
                  /\ Carries(record) = {"key", "value"}
                  /\ record.key = key
                  /\ record.value = JsonDumpValue(last'.ret)
             [] last'.op = "delete" ->
                  /\ Carries(record) = {"key", "old_value"}
                  /\ record.key = key
                  /\ record.old_value = JsonDumpValue(expected[key])
             [] last'.op = "clear" -> Carries(record) = {}

OptionalFields == {"key", "value", "old_value", "metadata"}

\* The optional entries that apply to a record of the store: the key but
\* for CLEAR, the value of PUT and GET, the old value of PUT and DELETE. The
\* store passes no metadata.
Applicable(record) ==
  CASE record.operation = "PUT"    -> {"key", "value", "old_value"}
    [] record.operation = "GET"    -> {"key", "value"}
    [] record.operation = "DELETE" -> {"key", "old_value"}
    [] record.operation = "CLEAR"  -> {}

\* C21 as claimed: every record of the log has transaction_id, operation
\* and timestamp, has key, value, old_value and metadata only where they
\* apply to its operation, and holds no null; a CLEAR record of the store has
\* none of the four.
C21_OnlyApplicableFields ==
  \A i \in 1..Len(DiskLog) :
    LET record == DiskLog[i]
    IN /\ {"transaction_id", "operation", "timestamp"} \subseteq DOMAIN record
       /\ (DOMAIN record \cap OptionalFields) \subseteq Applicable(record)
       /\ \A f \in DOMAIN record \cap {"value", "old_value", "metadata"} :
            record[f] # "null"

\* The threads inside the `with` block of their method: from the lock's
\* grant to the end of the block.
InBlock == {"locked", "save_open", "save_write", "log", "log_write", "unlock"}

Writing == {t \in Threads : th[t].op \in WriteOps /\ th[t].pc \in InBlock}

Reading == {t \in Threads : th[t].op \in ReadOps /\ th[t].pc \in InBlock}

\* C22: at most one thread is inside the block of put, delete or clear,
\* and while one is, none is inside the block of get, exists, size or items.
C22_Exclusion ==
  /\ Cardinality(Writing) <= 1
  /\ Writing # {} => Reading = {}

\* A put is inside its block, between the open and the write of the data
\* file, while the other thread waits for the read lock of its get.
C22_Witness ==
  \E t \in Threads, u \in Threads :
    /\ th[t].op = "put" /\ th[t].pc = "save_write"
    /\ th[u].op = "get" /\ th[u].pc = "lock"

\* The calls of the run are over: each thread made its call and it ended.
AllDone == \A t \in Threads : th[t].pc = "done"

\* Every thread made a call of method op, and no two on the same key.
DisjointCalls(op) ==
  /\ \A t \in Threads : th[t].op = op /\ Validation(op, th[t].key, th[t].value) = "none"
  /\ \A t \in Threads, u \in Threads : t # u => th[t].key # th[u].key

\* The keys of the threads' calls.
CallKeys == {th[t].key : t \in Threads}

\* C23: threads that each put one key, all keys different, leave every key
\* of theirs in the map with its put value, none lost and none twice: on
\* an empty store size() is threads * puts; threads that delete different
\* keys, together all keys of the store, leave size() 0, and none of the
\* calls fails.
C23_DisjointMutations ==
  AllDone =>
    /\ DisjointCalls("put") =>
         /\ \A t \in Threads : th[t].err = "none" /\ DictGet(data, th[t].key) = th[t].value
         /\ DOMAIN data = DOMAIN expected \cup CallKeys
         /\ expected = EmptyMap => Cardinality(DOMAIN data) = Cardinality(Threads) * 1
    /\ (DisjointCalls("delete") /\ CallKeys = DOMAIN expected) =>
         /\ \A t \in Threads : th[t].err = "none"
         /\ Cardinality(DOMAIN data) = 0

C23_Witness ==
  /\ AllDone
  /\ DisjointCalls("put")
  /\ expected = EmptyMap
  /\ Cardinality(DOMAIN data) = 2

C23_WitnessDelete ==
  /\ AllDone
  /\ DisjointCalls("delete")
  /\ Cardinality(DOMAIN expected) = 2
  /\ data = EmptyMap

\* The thread holds the store's lock, as a reader or as the writer.
HoldsLock(t) == t \in rw_readers \/ rw_writer = t

\* The call of thread t ends in this step.
EndsNow(t) == th[t].pc # "done" /\ th'[t].pc = "done"

GetAndDelete(g, d) ==
  /\ AllDone
  /\ th[g].op = "get" /\ th[g].key \in DOMAIN expected
  /\ th[d].op = "delete" /\ th[d].key \in DOMAIN expected

KeysRead(t) == th[t].op = "keys" /\ th[t].pc = "done"

\* C26 as claimed: beside the other thread's put or delete, consuming the
\* sequence of keys() raises nothing, and from then on every key obtained
\* is in the map, where the thread's get finds it, and the number of keys,
\* which size() returns, is the number of keys obtained.
C26_KeysRetrievable ==
  \A t \in Threads :
    KeysRead(t) =>
      /\ th[t].err = "none"
      /\ DOMAIN th[t].seen \subseteq DOMAIN data
      /\ Cardinality(DOMAIN data) = Cardinality(DOMAIN th[t].seen)

\* Thread t made a valid put on key k and it is over.
PutOn(t, k) ==
  /\ th[t].op = "put" /\ th[t].key = k /\ th[t].pc = "done"
  /\ Validation("put", k, th[t].value) = "none"

\* The values the puts on key k store.
PutValuesOn(k) == {th[t].value : t \in {u \in Threads : th[u].op = "put" /\ th[u].key = k}}

\* No thread deletes key k (no thread of these runs calls clear).
NoDeleteOf(k) == \A t \in Threads : ~(th[t].op = "delete" /\ th[t].key = k)

\* The put of thread t took the write lock after every other put on k: the
\* old value it read under the lock is the value the other put stored.
LastPutOn(t, k) ==
  /\ PutOn(t, k)
  /\ \A u \in Threads \ {t} :
       (th[u].op = "put" /\ th[u].key = k) => (PutOn(u, k) /\ th[t].val = th[u].value)

\* C27: a get of a key the store held at the start, run beside puts on that
\* key and no delete, does not fail and returns the initial value or a
\* value one of the puts stored; once all calls are over the key holds the
\* value of the put that took the write lock last.
C27_AtomicReplace ==
  \A k \in DOMAIN expected :
    NoDeleteOf(k) =>
      /\ \A g \in Threads :
           (th[g].op = "get" /\ th[g].key = k /\ th[g].pc = "done") =>
             /\ th[g].err = "none"
             /\ th[g].ret \in {expected[k]} \cup PutValuesOn(k)
      /\ \A t \in Threads : (AllDone /\ LastPutOn(t, k)) => data[k] = th[t].value

C27_Witness ==
  \E g \in Threads, t \in Threads :
    /\ th[g].op = "get" /\ th[g].pc = "done" /\ th[g].key \in DOMAIN expected
    /\ PutOn(t, th[g].key)
    /\ th[g].ret = th[t].value
    /\ th[g].ret # expected[th[g].key]

C27_WitnessLast ==
  \E t \in Threads, u \in Threads :
    /\ t # u /\ AllDone
    /\ th[t].key \in DOMAIN expected
    /\ LastPutOn(t, th[t].key) /\ PutOn(u, th[t].key)
    /\ th[u].value # th[t].value

\* Every thread called log_transaction and has returned from it.
AllLogged == \A t \in Threads : th[t].op = "log_transaction" /\ th[t].pc = "done"

\* The transaction_id values of the records in the log file.
LoggedIds == {DiskLog[i].transaction_id : i \in 1..Len(DiskLog)}

\* The log file holds one record for each thread's call, the counter is the
\* number of calls, and no two records have the same transaction_id.
NothingLost ==
  /\ log_file.kind = "json"
  /\ Len(DiskLog) = Cardinality(Threads) * 1
  /\ transaction_counter = Cardinality(Threads) * 1
  /\ Cardinality(LoggedIds) = Len(DiskLog)
  /\ \A t \in Threads :
       \E i \in 1..Len(DiskLog) :
         DiskLog[i].transaction_id = th[t].n /\ DiskLog[i].key = th[t].key

StoreErrors == {"InvalidKeyError", "InvalidValueError", "KeyNotFoundError", "TransactionError"}

\* C29: a thread whose call has ended, with one of the store's errors or
\* without, holds neither the store's lock nor the logger's; a thread holds
\* the logger's lock only inside log_transaction; and when no call is in
\* progress both locks are free, so that the next call of any thread gets
\* the write lock at once.
C29_LocksReleased ==
  /\ \A t \in Threads :
       /\ ~InCall(t) => (~HoldsLock(t) /\ logger_lock # t)
       /\ (th[t].pc = "done" /\ th[t].err \in StoreErrors) => (~HoldsLock(t) /\ logger_lock # t)
       /\ logger_lock = t => th[t].pc = "log_write"
  /\ (\A t \in Threads : ~InCall(t)) => (CanAcquireWrite /\ logger_lock = NoThread)

C29_Witness ==
  \E t \in Threads, u \in Threads :
    /\ th[t].pc = "done" /\ th[t].err = "TransactionError"
    /\ th[u].op = "put" /\ th[u].pc = "locked" /\ rw_writer = u

\* The thread has invoked a call and waits for the store's lock.
Waiting(t) == th[t].pc = "lock"

\* The calls of the threads other than t are calls of the methods ops.
OthersCall(t, ops) == \A u \in Threads \ {t} : th[u].op \in ops \cup {"none"}

\* Beside threads that keep on calling get, an invoked put or delete gets
\* the write lock and returns.
WriterNotStarved ==
  \A t \in Threads :
    (Waiting(t) /\ th[t].op \in WriteOps)
      ~> (th[t].pc = "done" \/ ~OthersCall(t, {"get"}))

\* Beside threads that keep on calling methods that take the write lock, an
\* invoked get gets the read lock and returns.
ReaderNotStarved ==
  \A t \in Threads :
    (Waiting(t) /\ th[t].op \in ReadOps)
      ~> (th[t].pc = "done" \/ ~OthersCall(t, WriteOps))

HolderReturns ==
  \A t \in Threads : HoldsLock(t) ~> (th[t].pc = "done")

\* Thread t takes this step.
StepOf(t) == th'[t] # th[t]

\* The methods that only observe the store.
Observers == {"size", "exists"} \cup IterOps

\* C31: no step of size, exists, keys, values or items changes the map, the
\* data file, the log file or the sequence counter; no step of a get
\* changes the map or the data file, and a get that returns has added to
\* the counter once and, its log write not failing, one GET record with its
\* key and the value it returns at the end of the log file.
C31_Observers ==
  [][\A t \in Threads :
       /\ (StepOf(t) /\ th'[t].op \in Observers) =>
            UNCHANGED <<data, data_file, log_file, transaction_counter>>
       /\ (StepOf(t) /\ th'[t].op = "get") =>
            /\ UNCHANGED <<data, data_file>>
            /\ (th[t].pc # "log_write") => UNCHANGED <<log_file, transaction_counter>>
            /\ (th[t].pc = "log_write") =>
                 /\ transaction_counter' = transaction_counter + 1
                 /\ (has_log_file /\ fault' = fault) =>
                      /\ log_file'.kind = "json"
                      /\ Len(log_file'.recs) = Len(DiskLog) + 1
                      /\ SubSeq(log_file'.recs, 1, Len(DiskLog)) = DiskLog
                      /\ LET record == log_file'.recs[Len(log_file'.recs)]
                         IN /\ record.operation = "GET"
                            /\ record.key = th[t].key
                            /\ record.value = JsonDumpValue(SerializeValue(th[t].val))
                 /\ ~has_log_file => UNCHANGED log_file]_vars

C31_Witness ==
  \E t \in Threads, u \in Threads :
    /\ th[t].op = "get" /\ th[t].pc = "done" /\ th[t].err = "none"
    /\ th[u].op \in Observers /\ th[u].pc = "done"
    /\ has_log_file /\ has_data_file /\ fault = "none"
    /\ Len(DiskLog) = 2

\* The command that has just run met one of the store's errors.
CliMetError == cli.mode # "none" /\ last.op # "init" /\ last.err \in StoreErrors

\* C32 as claimed: a command that meets InvalidKeyError, InvalidValueError,
\* KeyNotFoundError or TransactionError prints a message and does not crash
\* the process; at the prompt the loop goes on to the next prompt, and with
\* one command on the command line the process exits with a status other
\* than 0.
C32_CliErrors ==
  [][(CliMetError' /\ cli'.printed # "none") =>
       /\ cli'.printed = "error"
       /\ cli.mode = "interactive" => cli'.state = "prompt"
       /\ cli.mode = "command" => (cli'.state = "exited" /\ cli'.status # 0)]_vars

\* The part of C32 that holds: the message, and the prompt that follows.
CliErrorReported ==
  [][(CliMetError' /\ cli'.printed # "none") =>
       /\ cli'.printed = "error"
       /\ cli.mode = "interactive" => cli'.state = "prompt"
       /\ cli.mode = "command" => cli'.state = "exited"]_vars

\* The data file holds the whole of the map.
DataFileWritten == has_data_file => data_file = JsonFile(JsonDumpDict(data))

\* The log file ends with the record of thread t's call, which has the
\* latest transaction id.
LogEndsWith(t) ==
  /\ log_file.kind = "json" /\ log_file.recs # <<>>
  /\ log_file.recs[Len(log_file.recs)].operation = OperationOf(th[t].op)
  /\ log_file.recs[Len(log_file.recs)].transaction_id = transaction_counter

\* C33: in a put, delete or clear the map changes only under the write
\* lock and before either file does; the data file is written under the
\* lock before the log; when log_transaction runs, the data file holds the
\* whole map; and when a call that succeeds leaves the write lock, the data
\* file holds the map and the log (its write not having failed) ends with
\* the call's record.
C33_StepOrder ==
  [][\A t \in Threads :
       (StepOf(t) /\ th[t].op \in WriteOps) =>
         /\ data' # data =>
              /\ rw_writer = t /\ th[t].pc = "locked"
              /\ UNCHANGED <<data_file, log_file, transaction_counter>>
         /\ data_file' # data_file =>
              /\ rw_writer = t /\ th[t].pc \in {"save_open", "save_write"}
              /\ UNCHANGED <<data, log_file, transaction_counter>>
         /\ (log_file' # log_file \/ transaction_counter' # transaction_counter) =>
              /\ rw_writer = t /\ rw_writer' = t /\ th[t].pc = "log_write"
              /\ UNCHANGED <<data, data_file>>
              /\ DataFileWritten
         /\ (rw_writer = t /\ rw_writer' # t /\ th'[t].err = "none") =>
              /\ th[t].pc = "unlock"
              /\ UNCHANGED <<data, data_file, log_file, transaction_counter>>
              /\ DataFileWritten
              /\ (has_log_file /\ fault \notin LogFaults) => LogEndsWith(t)]_vars

C33_Witness ==
  \E t \in Threads :
    /\ th[t].op = "put" /\ th[t].pc = "unlock" /\ rw_writer = t
    /\ has_data_file /\ has_log_file /\ fault = "none"
    /\ data_file = JsonFile(JsonDumpDict(data))
    /\ Len(log_file.recs) = 2

\* The map that the first n records of the log describe, each value as the
\* JSON text the record holds: a PUT sets its key, a DELETE removes it, a
\* CLEAR empties the map, a GET changes nothing.
RECURSIVE ReplayLog(_, _)
ReplayLog(recs, n) ==
  IF n = 0 THEN EmptyMap
  ELSE LET d == ReplayLog(recs, n - 1)
           r == recs[n]
       IN CASE r.operation = "PUT" ->
                 [k \in (DOMAIN d) \cup {r.key} |-> IF k = r.key THEN r.value ELSE d[k]]
            [] r.operation = "DELETE" -> [k \in (DOMAIN d) \ {r.key} |-> d[k]]
            [] r.operation = "CLEAR" -> EmptyMap
            [] OTHER -> d

\* A store started empty with a fresh log file and no I/O failure so far,
\* at a moment when no writer is inside its critical section.
QuietStore == has_log_file /\ fault = "none" /\ rw_writer = NoThread

\* Every GET record holds the value its key has in the replay of the
\* records before it.
GetRecordsReplayed ==
  \A i \in 1..Len(DiskLog) :
    DiskLog[i].operation = "GET" =>
      LET d == ReplayLog(DiskLog, i - 1)
      IN /\ DiskLog[i].key \in DOMAIN d
         /\ "value" \in DOMAIN DiskLog[i]
         /\ DiskLog[i].value = d[DiskLog[i].key]

\* C34 (amended): with a fresh log file and no I/O failure, replaying the
\* PUT/DELETE/CLEAR records in log order on an empty map yields, whenever
\* no writer is inside its critical section, the keys of the in-memory map
\* with each value as JSON holds it, and every GET record's value is the
\* replayed value of its key at that position of the log.
C34_LogIsHistory ==
  (has_log_file /\ fault = "none") =>
    /\ GetRecordsReplayed
    /\ rw_writer = NoThread =>
         ReplayLog(DiskLog, Len(DiskLog))
           = JsonDumpDict([k \in DOMAIN data |-> SerializeValue(data[k])])

\* C34 as claimed: the replayed values, read back from the log, are the
\* in-memory map itself.
C34_ReplayIsMap ==
  QuietStore => JsonLoadDict(ReplayLog(DiskLog, Len(DiskLog))) = data

\* Two writers and a get are in the log, the last record a DELETE or a PUT
\* that followed a GET.
C34_Witness ==
  /\ QuietStore
  /\ Len(DiskLog) = 2
  /\ DiskLog[1].operation = "PUT" /\ DiskLog[2].operation = "GET"
  /\ DiskLog[2].value = JsonDumpValue(PyTuple)
  /\ \A t \in Threads : th[t].pc = "done"

\* A put and then a delete of the same key by two threads: the replay is
\* the empty map.
C34_WitnessDelete ==
  /\ QuietStore
  /\ Len(DiskLog) = 2
  /\ DiskLog[1].operation = "PUT" /\ DiskLog[2].operation = "DELETE"
  /\ data = EmptyMap
  /\ th["t1"].op = "put" /\ th["t2"].op = "delete"

\* The call just made was a keyed operation that raised KeyNotFoundError or
\* InvalidKeyError.
KeyedCallFailed ==
  /\ last'.op \in {"put", "get", "delete", "exists"}
  /\ last'.err \in {"KeyNotFoundError", "InvalidKeyError"}

\* C35: a get or delete that raises KeyNotFoundError, and a put, get, delete
\* or exists that raises InvalidKeyError, leaves the log file, the
\* transaction counter, the data file and the map as they were; a store
\* call that changes the log or the counter returned without an exception.
C35_FailuresNotLogged ==
  [][/\ KeyedCallFailed =>
          UNCHANGED <<log_file, transaction_counter, data_file, data>>
     /\ (last'.op \in {"put", "get", "delete", "clear", "size", "exists"}
         /\ (log_file' # log_file \/ transaction_counter' # transaction_counter))
          => last'.err = "none"]_vars

\* A delete of a missing key after a logged put, both files configured.
C35_Witness ==
  /\ last.op = "delete" /\ last.err = "KeyNotFoundError"
  /\ has_log_file /\ has_data_file
  /\ transaction_counter = 1 /\ Len(DiskLog) = 1
  /\ DiskLog[1].operation = "PUT"

\* An exists on a blank key after a logged put.
C35_WitnessInvalid ==
  /\ last.op = "exists" /\ last.err = "InvalidKeyError" /\ last.key \in BlankKeys
  /\ has_log_file /\ transaction_counter = 1 /\ Len(DiskLog) = 1

\* The map as the call just made changed it.
MutationOf(call) ==
  CASE call.op = "put"    -> DictSet(data, call.key, call.value)
    [] call.op = "delete" -> DictPop(data, call.key)
    [] call.op = "clear"  -> DictClear(data)

\* C36: a put, delete or clear whose _save_data raises TransactionError
\* leaves the log file and the transaction counter as they were, while the
\* map holds the change the call made.
C36_FailedSaveNotLogged ==
  [][(last'.op \in Mutators /\ last'.err = "TransactionError") =>
       /\ UNCHANGED <<log_file, transaction_counter>>
       /\ data' = MutationOf(last')]_vars

\* After a logged put of one key, a put of another key failed to save: the
\* map holds both keys and the replay of the log holds the first only.
C36_Witness ==
  /\ last.op = "put" /\ last.err = "TransactionError"
  /\ has_log_file /\ log_file.kind = "json"
  /\ transaction_counter = 1 /\ Len(DiskLog) = 1
  /\ Cardinality(DOMAIN data) = 2
  /\ DOMAIN ReplayLog(DiskLog, Len(DiskLog)) # DOMAIN data

\* The lock order: a thread takes the logger's lock only while it holds the
\* store's lock, and takes the store's lock only while it does not hold the
\* logger's.
LockOrder ==
  [][\A t \in Threads :
       /\ (logger_lock' = t /\ logger_lock # t) =>
            /\ t \in rw_readers \/ rw_writer = t
            /\ UNCHANGED <<rw_readers, rw_writer>>
       /\ ((rw_writer' = t /\ rw_writer # t) \/ (t \in rw_readers' \ rw_readers)) =>
            logger_lock # t]_vars

\* No cycle of waiting threads: the holder of the logger's lock is inside
\* log_transaction, waiting for nothing, and while a call is in progress
\* some thread inside a call can take a step.
NoWaitCycle ==
  /\ \A t \in Threads : logger_lock = t => th[t].pc = "log_write"
  /\ (\E t \in Threads : InCall(t)) => \E t \in Threads : InCall(t) /\ ENABLED Step(t)

C38_CounterCountsCalls ==
  [][/\ got'.called = "log_transaction" =>
          /\ transaction_counter' = transaction_counter + 1
          /\ (log_file'.kind = "json" /\ log_file' # log_file) =>
               log_file'.recs[Len(log_file'.recs)].transaction_id = transaction_counter'
     /\ got'.called \in {"get_transactions", "clear_log"} =>
          transaction_counter' = transaction_counter
     /\ got'.called # "init" => transaction_counter' >= transaction_counter
     /\ ~has_log_file =>
          /\ log_file' = NoLog
          /\ got'.called = "get_transactions" => got'.res = <<>>]_vars

\* Without a log file, get_transactions has just returned [] after two
\* log_transaction calls.
C38_Witness ==
  /\ ~has_log_file
  /\ transaction_counter = 2
  /\ got.called = "get_transactions" /\ got.res = <<>>

\* With a log file, a log_transaction whose rewrite failed has still been
\* counted.
C38_WitnessFailedWrite ==
  /\ has_log_file /\ fault \in LogFaults
  /\ got.called = "log_transaction"
  /\ transaction_counter = 2 /\ Len(DiskLog) < 2

\* The methods that take a key.
KeyedOps == {"put", "get", "delete", "exists"}

\* C39: a put, get, delete or exists called with an empty, whitespace-only
\* or non-str key ends at once with InvalidKeyError, whatever the value
\* argument and the content of the store: it returns nothing, takes neither
\* the store's lock nor the logger's, and leaves the map, the files and the
\* counter as they are.
C39_KeyValidationFirst ==
  [][\A t \in Threads :
       (StepOf(t) /\ th'[t].op \in KeyedOps /\ th'[t].key \in InvalidKeys) =>
         /\ th'[t].pc = "done"
         /\ th'[t].err = "InvalidKeyError"
         /\ th'[t].ret = NoneVal
         /\ t \notin rw_readers' /\ rw_writer' # t /\ logger_lock' # t
         /\ UNCHANGED <<rw_readers, rw_writer, logger_lock,
                        data, data_file, log_file, transaction_counter>>]_vars

\* A put with a blank key and a None value has raised InvalidKeyError while
\* the other thread holds the write lock, and the store holds the key "a".
C39_Witness ==
  \E t, u \in Threads :
    /\ th[t].op = "put" /\ th[t].key \in BlankKeys /\ th[t].value = NoneVal
    /\ th[t].pc = "done" /\ th[t].err = "InvalidKeyError"
    /\ rw_writer = u /\ th[u].op = "delete"

\* An exists on the None key has raised InvalidKeyError.
C39_WitnessExists ==
  \E t \in Threads :
    /\ th[t].op = "exists" /\ th[t].key = NoneKey
    /\ th[t].pc = "done" /\ th[t].err = "InvalidKeyError"

\* Thread t's clear_log has emptied the log file and returned.
Cleared(t) == th[t].op = "clear_log" /\ th[t].pc = "done" /\ th[t].err = "none"

\* The log_transaction calls that have taken their id and not yet rewritten
\* the file.
Pending == {u \in Threads : th[u].pc \in {"log_read", "log_append"}}

\* The log file holds, in order, exactly the records with the ids given
\* after thread t's clear_log emptied it, the one being written excepted.
HoldsAppendsAfter(t) ==
  /\ log_file.kind = "json"
  /\ Len(DiskLog) = transaction_counter - th[t].n - Cardinality(Pending)
  /\ \A i \in 1..Len(DiskLog) : DiskLog[i].transaction_id = th[t].n + i

C40_WitnessWaiting ==
  \E t, u \in Threads :
    /\ th[t].pc = "clear_lock" /\ th[u].pc = "log_append" /\ logger_lock = u

\* C10 as claimed: once the data file was written, it holds a complete JSON
\* object at every instant, and a store constructed on it loads it.
C10_FileAlwaysLoads ==
  has_data_file => LoadData(has_data_file, data_file).err = "none"

====
